---- MODULE Spec2Model ----
(***************************************************************************)
(* Model of the AI Card Divider add-on (src/__init__.py): the response     *)
(* extraction and parsing pipeline and the provider settings resolution.   *)
(*                                                                         *)
(* A Python str is a sequence of one-character strings.  Indices into a    *)
(* text are 0-based as in the source: text[i] is CharAt(text, i), and -1   *)
(* is the "not found" result of find/rfind.                                *)
(***************************************************************************)
EXTENDS Integers, Sequences, FiniteSets, TLC

VARIABLES
    pc,           \* position of the harness: which function has been applied
    wrapper,      \* how the response text is dressed (fence, prose, nothing)
    body,         \* the text inside the dressing
    content,      \* the text handed to _extract_json_from_text / _parse_split_cards_from_text
    extracted,    \* result of _extract_json_from_text(content)
    reextracted,  \* result of _extract_json_from_text applied to extracted.value
    parsed,       \* outcome of _parse_split_cards_from_text(content)
    config,       \* the configuration mapping handed to the settings functions
    settings,     \* result of _get_openai_settings / _get_gemini_settings
    url,          \* outcome of _build_gemini_generatecontent_url
    raw,          \* the mapping mw.addonManager.getConfig returns
    env,          \* os.environ
    posts,        \* the requests handed to _post_json so far, in order
    resp,         \* the transport's reply to the request: its error flag and bytes
    outcome,      \* what call_openai_to_split / call_gemini_to_split ends with
    col,          \* mw.col: the notes of the collection
    runs          \* the runs of the batch handlers, in the order they started

\* the variables of the provider call, the configuration loader and the batch
\* loops, which the text pipeline and the settings functions leave alone
rest == <<url, raw, env, posts, resp, outcome, col, runs>>
vars == <<pc, wrapper, body, content, extracted, reextracted, parsed, config, settings, rest>>

(***************************************************************************)
(* Characters                                                              *)
(***************************************************************************)
LBrace    == "{"
RBrace    == "}"
Quote     == "\""
Backslash == "\\"
Backtick  == "BACKTICK"   \* the single character GRAVE ACCENT (no string of the language can hold it)
Space     == " "
LF        == "\n"
CR        == "\r"
Tab       == "\t"
LineSep   == "U+2028"     \* the single character LINE SEPARATOR

\* str.isspace() on the characters of the model
IsSpace(ch) == ch \in {Space, LF, CR, Tab, LineSep}

\* the characters str.splitlines() breaks a line at
IsLineBreak(ch) == ch \in {LF, CR, LineSep}

(***************************************************************************)
(* Python str primitives                                                   *)
(***************************************************************************)
Min(a, b) == IF a < b THEN a ELSE b
Max(a, b) == IF a > b THEN a ELSE b

\* text[a:b] for 0 <= a, 0 <= b
Slice(text, a, b) == SubSeq(text, a + 1, Min(b, Len(text)))

\* text[i]; an index out of range raises IndexError
CharAt(text, i) == IF i >= 0 /\ i < Len(text) THEN text[i + 1] ELSE "IndexError"

RECURSIVE LStrip(_)
LStrip(text) ==
    IF text # <<>> /\ IsSpace(Head(text)) THEN LStrip(Tail(text)) ELSE text

RECURSIVE RStrip(_)
RStrip(text) ==
    IF text # <<>> /\ IsSpace(text[Len(text)])
    THEN RStrip(SubSeq(text, 1, Len(text) - 1))
    ELSE text

\* text.strip()
Strip(text) == RStrip(LStrip(text))

\* text.startswith(prefix)
StartsWith(text, prefix) ==
    Len(text) >= Len(prefix) /\ SubSeq(text, 1, Len(prefix)) = prefix

\* text.find(ch): the least index holding ch, or -1
Find(text, ch) ==
    LET at == {i \in 0..(Len(text) - 1) : text[i + 1] = ch}
    IN  IF at = {} THEN -1 ELSE CHOOSE i \in at : \A j \in at : i <= j

\* text.rfind(ch): the greatest index holding ch, or -1
RFind(text, ch) ==
    LET at == {i \in 0..(Len(text) - 1) : text[i + 1] = ch}
    IN  IF at = {} THEN -1 ELSE CHOOSE i \in at : \A j \in at : j <= i

\* text.splitlines(): breaks at "\n", "\r", "\r\n" and LINE SEPARATOR, keeps no
\* terminators, and yields no final empty line.  LineEnds holds the position
\* of the last character of every terminator ("\r\n" is one terminator).
LineEnds(text) ==
    {i \in 1..Len(text) :
        IsLineBreak(text[i]) /\ ~(text[i] = CR /\ i < Len(text) /\ text[i + 1] = LF)}

TerminatorStart(text, e) ==
    IF text[e] = LF /\ e > 1 /\ text[e - 1] = CR THEN e - 1 ELSE e

RECURSIVE LinesFrom(_, _)
LinesFrom(text, from) ==
    IF from > Len(text) THEN <<>>
    ELSE LET ends == {e \in LineEnds(text) : e >= from} IN
         IF ends = {} THEN <<SubSeq(text, from, Len(text))>>
         ELSE LET e == CHOOSE x \in ends : \A y \in ends : x <= y
              IN  <<SubSeq(text, from, TerminatorStart(text, e) - 1)>>
                  \o LinesFrom(text, e + 1)

SplitLines(text) == LinesFrom(text, 1)

\* "\n".join(lines)
RECURSIVE JoinLines(_)
JoinLines(lines) ==
    IF lines = <<>> THEN <<>>
    ELSE IF Len(lines) = 1 THEN lines[1]
    ELSE lines[1] \o <<LF>> \o JoinLines(Tail(lines))

(***************************************************************************)
(* _extract_json_from_text                                                 *)
(***************************************************************************)
FenceMarker == <<Backtick, Backtick, Backtick>>

\* lines 455-463: drop the opening fence line, and the last line when it is a
\* closing fence
DropClosingFence(lines) ==
    IF lines # <<>> /\ StartsWith(Strip(lines[Len(lines)]), FenceMarker)
    THEN SubSeq(lines, 1, Len(lines) - 1)
    ELSE lines

StripFence(text) ==
    IF StartsWith(text, FenceMarker)
    THEN LET lines == SplitLines(text)
         IN  IF lines # <<>>
             THEN Strip(JoinLines(DropClosingFence(Tail(lines))))
             ELSE text
    ELSE text

\* lines 452-463: the trimmed, fence-stripped text the scan works on
Cleaned(text) == StripFence(Strip(text))

\* a result of the function: the return statement taken (site), the value
\* returned, and whether an exception escaped instead
Returned(site, value) == [raised |-> FALSE, site |-> site, value |-> value]
Raised(what)          == [raised |-> TRUE, site |-> what, value |-> <<>>]

\* line 475: the exclusive upper end of range(start, len(text))
ScanEnd_PastEnd(text) == Len(text) + 1
ScanEnd(text) == Len(text)

\* lines 505-508: the fallback after a scan that never balanced
LastBrace_First(text) == Find(text, RBrace)
LastBrace(text) == RFind(text, RBrace)

Fallback(text, obj_start) ==
    LET end == LastBrace(text)
    IN  IF obj_start # -1 /\ end > obj_start
        THEN Returned("fallback", Slice(text, obj_start, end + 1))
        ELSE Returned("unchanged", text)

\* line 502: the balanced object text[obj_start : i + 1]
Balanced_DropOpen(text, obj_start, i) == Slice(text, obj_start + 1, i + 1)
Balanced(text, obj_start, i) == Slice(text, obj_start, i + 1)

\* lines 478-487: one character seen inside a string; yields <<in_str, esc>>
InString_QuoteEndsEscaped(ch, esc) ==
    IF ch = Backslash THEN <<TRUE, TRUE>>
    ELSE IF ch = Quote THEN <<FALSE, FALSE>>
    ELSE <<TRUE, FALSE>>
InString(ch, esc) ==
    IF esc THEN <<TRUE, FALSE>>
    ELSE IF ch = Backslash THEN <<TRUE, TRUE>>
    ELSE IF ch = Quote THEN <<FALSE, FALSE>>
    ELSE <<TRUE, FALSE>>

\* lines 490-492: outside a string, a quote opens one
EntersString(ch) == ch = Quote

\* lines 476-502: the loop body at index i, on the loop's variables st; done
\* says that the body returned (or raised) and result what
ScanStep(text, i, st) ==
    LET ch == CharAt(text, i) IN
    IF ch = "IndexError" THEN [st EXCEPT !.done = TRUE, !.result = Raised("IndexError")]
    ELSE IF st.in_str
    THEN LET n == InString(ch, st.esc)
         IN  [st EXCEPT !.in_str = n[1], !.esc = n[2]]
    ELSE IF EntersString(ch)
    THEN [st EXCEPT !.in_str = TRUE]
    ELSE IF ch = LBrace
    THEN [st EXCEPT !.depth = st.depth + 1,
                    !.obj_start = IF st.depth = 0 THEN i ELSE st.obj_start]
    ELSE IF ch = RBrace /\ st.depth > 0
    THEN IF st.depth - 1 = 0 /\ st.obj_start # -1
         THEN [st EXCEPT !.depth = st.depth - 1, !.done = TRUE,
                         !.result = Returned("balanced", Balanced(text, st.obj_start, i))]
         ELSE [st EXCEPT !.depth = st.depth - 1]
    ELSE st

\* line 475: the body for i = lo, ..., hi - 1 in order, up to the first return
\* (by halves, which keeps the evaluation shallow on long texts)
RECURSIVE ScanRange(_, _, _, _)
ScanRange(text, lo, hi, st) ==
    IF st.done \/ lo >= hi THEN st
    ELSE IF hi = lo + 1 THEN ScanStep(text, lo, st)
    ELSE LET mid == (lo + hi) \div 2
         IN  ScanRange(text, mid, hi, ScanRange(text, lo, mid, st))

\* lines 470-508: the scan from the first "{" and what follows the loop
Scan(text, start) ==
    LET st == ScanRange(text, start, ScanEnd(text),
                        [in_str |-> FALSE, esc |-> FALSE, depth |-> 0, obj_start |-> -1,
                         done |-> FALSE, result |-> Returned("pending", <<>>)])
    IN  IF st.done THEN st.result ELSE Fallback(text, st.obj_start)

\* lines 441-508
ExtractJsonFromText(rawText) ==
    LET text  == Cleaned(rawText)
        start == Find(text, LBrace)
    IN  IF start = -1
        THEN Returned("nobrace", text)
        ELSE Scan(text, start)

(***************************************************************************)
(* json.loads (line 597), on the characters of the model.  A decoded value *)
(* is a record tagged by its Python type: None, bool, int, str, list, dict.*)
(* A dict is kept as its sequence of <<key, value>> items.                 *)
(***************************************************************************)
JNull    == [t |-> "None"]
JBool(b) == [t |-> "bool", b |-> b]
JNum(n)  == [t |-> "int", n |-> n]
JStr(s)  == [t |-> "str", s |-> s]
JArr(a)  == [t |-> "list", a |-> a]
JObj(m)  == [t |-> "dict", m |-> m]

Digits == <<"0", "1", "2", "3", "4", "5", "6", "7", "8", "9">>
IsDigit(ch) == \E d \in 1..10 : Digits[d] = ch
DigitVal(ch) == (CHOOSE d \in 1..10 : Digits[d] = ch) - 1

\* whitespace of the JSON grammar
IsJsonWs(ch) == ch \in {Space, LF, CR, Tab}

\* characters a JSON string may not hold unescaped (strict mode)
IsControl(ch) == ch \in {LF, CR, Tab, "\f"}

DecodeOk(val, pos) == [ok |-> TRUE, val |-> val, pos |-> pos]
DecodeFail         == [ok |-> FALSE, val |-> JNull, pos |-> 0]

\* s[i..] begins with lit (i is 1-based)
HasAt(s, i, lit) == i + Len(lit) - 1 <= Len(s) /\ SubSeq(s, i, i + Len(lit) - 1) = lit

RECURSIVE SkipWs(_, _)
SkipWs(s, i) == IF i <= Len(s) /\ IsJsonWs(s[i]) THEN SkipWs(s, i + 1) ELSE i

\* the character an escape \c stands for, or "bad"
Unescape(c) ==
    CASE c = Quote     -> Quote
      [] c = Backslash -> Backslash
      [] c = "/"       -> "/"
      [] c = "n"       -> LF
      [] c = "r"       -> CR
      [] c = "t"       -> Tab
      [] c = "f"       -> "\f"
      [] OTHER         -> "bad"

\* the number of backslashes that end right before position j, none of them
\* before position i
RECURSIVE BackslashRun(_, _, _)
BackslashRun(s, i, j) ==
    IF j - 1 >= i /\ s[j - 1] = Backslash THEN 1 + BackslashRun(s, i, j - 1) ELSE 0

\* in the string that starts at position i, the character at j follows an
\* escaping backslash
IsEscapedAt(s, i, j) == BackslashRun(s, i, j) % 2 = 1

\* the characters the positions lo..hi of that string stand for: an escaping
\* backslash stands for nothing, the character after it for what it escapes
RECURSIVE DecodeRun(_, _, _, _)
DecodeRun(s, i, lo, hi) ==
    IF lo > hi THEN <<>>
    ELSE IF lo = hi
    THEN IF IsEscapedAt(s, i, lo) THEN <<Unescape(s[lo])>>
         ELSE IF s[lo] = Backslash THEN <<>>
         ELSE <<s[lo]>>
    ELSE LET mid == (lo + hi) \div 2
         IN  DecodeRun(s, i, lo, mid) \o DecodeRun(s, i, mid + 1, hi)

\* the string whose opening quote precedes position i, appended to acc: it
\* runs to the first quote no backslash escapes, holds no raw control
\* character, and every backslash in it starts a known escape
DecodeString(s, i, acc) ==
    IF ~\E j \in i..Len(s) : s[j] = Quote /\ ~IsEscapedAt(s, i, j) THEN DecodeFail
    ELSE LET close == CHOOSE j \in i..Len(s) :
                          /\ s[j] = Quote
                          /\ ~IsEscapedAt(s, i, j)
                          /\ \A k \in i..(j - 1) : s[k] # Quote \/ IsEscapedAt(s, i, k)
         IN  IF \E j \in i..(close - 1) :
                   IF IsEscapedAt(s, i, j) THEN Unescape(s[j]) = "bad" ELSE IsControl(s[j])
             THEN DecodeFail
             ELSE DecodeOk(JStr(acc \o DecodeRun(s, i, i, close - 1)), close + 1)

RECURSIVE DecodeDigits(_, _, _)
DecodeDigits(s, i, n) ==
    IF i <= Len(s) /\ IsDigit(s[i])
    THEN DecodeDigits(s, i + 1, 10 * n + DigitVal(s[i]))
    ELSE DecodeOk(JNum(n), i)

RECURSIVE DecodeValue(_, _)
RECURSIVE DecodeElements(_, _, _)
RECURSIVE DecodeMembers(_, _, _)

\* the value starting at position i
DecodeValue(s, i) ==
    IF i > Len(s) THEN DecodeFail
    ELSE IF s[i] = Quote THEN DecodeString(s, i + 1, <<>>)
    ELSE IF s[i] = LBrace
    THEN LET j == SkipWs(s, i + 1)
         IN  IF j <= Len(s) /\ s[j] = RBrace
             THEN DecodeOk(JObj(<<>>), j + 1)
             ELSE DecodeMembers(s, j, <<>>)
    ELSE IF s[i] = "["
    THEN LET j == SkipWs(s, i + 1)
         IN  IF j <= Len(s) /\ s[j] = "]"
             THEN DecodeOk(JArr(<<>>), j + 1)
             ELSE DecodeElements(s, j, <<>>)
    ELSE IF s[i] = "0" THEN DecodeOk(JNum(0), i + 1)
    ELSE IF IsDigit(s[i]) THEN DecodeDigits(s, i, 0)
    ELSE IF HasAt(s, i, <<"n", "u", "l", "l">>) THEN DecodeOk(JNull, i + 4)
    ELSE IF HasAt(s, i, <<"t", "r", "u", "e">>) THEN DecodeOk(JBool(TRUE), i + 4)
    ELSE IF HasAt(s, i, <<"f", "a", "l", "s", "e">>) THEN DecodeOk(JBool(FALSE), i + 5)
    ELSE DecodeFail

\* the elements of an array from position i, after "[" or ","
DecodeElements(s, i, acc) ==
    LET r == DecodeValue(s, i) IN
    IF ~r.ok THEN DecodeFail
    ELSE LET j == SkipWs(s, r.pos)
             a == Append(acc, r.val)
         IN  IF j > Len(s) THEN DecodeFail
             ELSE IF s[j] = "]" THEN DecodeOk(JArr(a), j + 1)
             ELSE IF s[j] = "," THEN DecodeElements(s, SkipWs(s, j + 1), a)
             ELSE DecodeFail

\* the members of an object from position i, after "{" or ","
DecodeMembers(s, i, acc) ==
    IF i > Len(s) \/ s[i] # Quote THEN DecodeFail
    ELSE
    LET k == DecodeString(s, i + 1, <<>>) IN
    IF ~k.ok THEN DecodeFail
    ELSE
    LET c == SkipWs(s, k.pos) IN
    IF c > Len(s) \/ s[c] # ":" THEN DecodeFail
    ELSE
    LET r == DecodeValue(s, SkipWs(s, c + 1)) IN
    IF ~r.ok THEN DecodeFail
    ELSE LET j == SkipWs(s, r.pos)
             m == Append(acc, <<k.val.s, r.val>>)
         IN  IF j > Len(s) THEN DecodeFail
             ELSE IF s[j] = RBrace THEN DecodeOk(JObj(m), j + 1)
             ELSE IF s[j] = "," THEN DecodeMembers(s, SkipWs(s, j + 1), m)
             ELSE DecodeFail

\* json.loads(s): one value with nothing but whitespace around it, else
\* JSONDecodeError (ok = FALSE)
JsonLoads(s) ==
    LET r == DecodeValue(s, SkipWs(s, 1))
    IN  IF r.ok /\ SkipWs(s, r.pos) > Len(s) THEN r ELSE DecodeFail

(***************************************************************************)
(* Python object protocol, as the parser uses it                           *)
(***************************************************************************)
\* bool(v): the truth value `v or ""` and `not v` test
Truthy(v) ==
    CASE v.t = "None" -> FALSE
      [] v.t = "bool" -> v.b
      [] v.t = "int"  -> v.n # 0
      [] v.t = "str"  -> v.s # <<>>
      [] v.t = "list" -> v.a # <<>>
      [] v.t = "dict" -> v.m # <<>>

\* the decimal digits of n >= 0
RECURSIVE IntToText(_)
IntToText(n) ==
    IF n < 10 THEN <<Digits[n + 1]>>
    ELSE Append(IntToText(n \div 10), Digits[(n % 10) + 1])

\* str(v).  The repr of a list or dict is not spelled out: it is never blank,
\* which is all the parser reads of it.
PyStr(v) ==
    CASE v.t = "None" -> <<"N", "o", "n", "e">>
      [] v.t = "bool" -> IF v.b THEN <<"T", "r", "u", "e">> ELSE <<"F", "a", "l", "s", "e">>
      [] v.t = "int"  -> IntToText(v.n)
      [] v.t = "str"  -> v.s
      [] v.t = "list" -> <<"[", "...", "]">>
      [] v.t = "dict" -> <<"{", "...", "}">>

\* d.get(key) on the items of a dict: the value of the last item with that
\* key, None when there is none
RECURSIVE DictGet(_, _)
DictGet(items, key) ==
    IF items = <<>> THEN JNull
    ELSE IF items[Len(items)][1] = key THEN items[Len(items)][2]
    ELSE DictGet(SubSeq(items, 1, Len(items) - 1), key)

(***************************************************************************)
(* _parse_split_cards_from_text                                            *)
(***************************************************************************)
KeyCards    == <<"c", "a", "r", "d", "s">>
KeyQuestion == <<"q", "u", "e", "s", "t", "i", "o", "n">>
KeyAnswer   == <<"a", "n", "s", "w", "e", "r">>

\* the four RuntimeErrors of the parser, by the message each is raised with
EmptyResponse     == "Model response was empty."
MalformedJSON     == "Failed to parse JSON in model response"
MissingCardsField == "Model response does not contain a non-empty 'cards' list."
NoValidCards      == "No valid cards were produced from the model response."

\* an outcome of the parser: the cards returned, or the exception that escaped
ParseReturned(cards) == [returned |-> TRUE, exc |-> "none", msg |-> "none", cards |-> cards]
ParseRaised(exc, msg) == [returned |-> FALSE, exc |-> exc, msg |-> msg, cards |-> <<>>]

\* line 592: `if not content`
IsEmptyContent(text) == text = <<>>

\* lines 609-610: str(c.get(key) or "").strip()
FieldText_Unstripped(c, key) ==
    LET v == DictGet(c.m, key) IN IF Truthy(v) THEN PyStr(v) ELSE <<>>
FieldText(c, key) ==
    LET v == DictGet(c.m, key) IN Strip(IF Truthy(v) THEN PyStr(v) ELSE <<>>)

\* lines 606-613: the loop over cards_data from entry i on
RECURSIVE CollectCards_StopAtInvalid(_, _, _)
CollectCards_StopAtInvalid(cards_data, i, result) ==
    IF i > Len(cards_data) THEN result
    ELSE LET c == cards_data[i] IN
         IF c.t # "dict" THEN result
         ELSE LET q == FieldText(c, KeyQuestion)
                  a == FieldText(c, KeyAnswer)
              IN  IF q = <<>> \/ a = <<>>
                  THEN result
                  ELSE CollectCards_StopAtInvalid(cards_data, i + 1,
                           Append(result, [question |-> q, answer |-> a]))

RECURSIVE CollectCards(_, _, _)
CollectCards(cards_data, i, result) ==
    IF i > Len(cards_data) THEN result
    ELSE LET c == cards_data[i] IN
         IF c.t # "dict" THEN CollectCards(cards_data, i + 1, result)
         ELSE LET q == FieldText(c, KeyQuestion)
                  a == FieldText(c, KeyAnswer)
              IN  IF q = <<>> \/ a = <<>>
                  THEN CollectCards(cards_data, i + 1, result)
                  ELSE CollectCards(cards_data, i + 1,
                           Append(result, [question |-> q, answer |-> a]))

\* lines 615-618
FinishParse(result) ==
    IF result = <<>> THEN ParseRaised("RuntimeError", NoValidCards)
    ELSE ParseReturned(result)

\* lines 601-618, on the decoded data
CardsFromData(data) ==
    IF data.t # "dict" THEN ParseRaised("AttributeError", "object has no attribute 'get'")
    ELSE LET cards_data == DictGet(data.m, KeyCards) IN
         IF cards_data.t # "list" \/ ~Truthy(cards_data)
         THEN ParseRaised("RuntimeError", MissingCardsField)
         ELSE FinishParse(CollectCards(cards_data.a, 1, <<>>))

\* lines 591-618
ParseSplitCardsFromText(text) ==
    IF IsEmptyContent(text) THEN ParseRaised("RuntimeError", EmptyResponse)
    ELSE LET x == ExtractJsonFromText(text) IN
         IF x.raised THEN ParseRaised(x.site, "raised in _extract_json_from_text")
         ELSE LET d == JsonLoads(x.value) IN
              IF ~d.ok THEN ParseRaised("RuntimeError", MalformedJSON)
              ELSE CardsFromData(d.val)

(***************************************************************************)
(* The texts a provider may answer with: what the functions are applied to *)
(***************************************************************************)
MaxFreeLen == 4     \* longest text enumerated character by character
MaxEntries == 2     \* longest `cards` list of a generated response

\* every text of at most MaxFreeLen characters over the characters the scan
\* tells apart
FreeAlphabet == {LBrace, RBrace, Quote, Backslash, "a"}
FreeTexts == UNION {[1..k -> FreeAlphabet] : k \in 0..MaxFreeLen}

\* a provider's serialisation of a value; sep follows every "," and ":"
EscapeChar(ch) ==
    CASE ch = Quote     -> <<Backslash, Quote>>
      [] ch = Backslash -> <<Backslash, Backslash>>
      [] ch = LF        -> <<Backslash, "n">>
      [] ch = CR        -> <<Backslash, "r">>
      [] ch = Tab       -> <<Backslash, "t">>
      [] OTHER          -> <<ch>>

RECURSIVE EscapeText(_)
EscapeText(s) ==
    IF s = <<>> THEN <<>>
    ELSE IF Len(s) = 1 THEN EscapeChar(s[1])
    ELSE LET half == Len(s) \div 2
         IN  EscapeText(SubSeq(s, 1, half)) \o EscapeText(SubSeq(s, half + 1, Len(s)))

RECURSIVE Dumps(_, _)
RECURSIVE DumpsElements(_, _)
RECURSIVE DumpsMembers(_, _)
Dumps(v, sep) ==
    CASE v.t = "None" -> <<"n", "u", "l", "l">>
      [] v.t = "bool" -> IF v.b THEN <<"t", "r", "u", "e">> ELSE <<"f", "a", "l", "s", "e">>
      [] v.t = "int"  -> IntToText(v.n)
      [] v.t = "str"  -> <<Quote>> \o EscapeText(v.s) \o <<Quote>>
      [] v.t = "list" -> <<"[">> \o DumpsElements(v.a, sep) \o <<"]">>
      [] v.t = "dict" -> <<LBrace>> \o DumpsMembers(v.m, sep) \o <<RBrace>>
DumpsElements(a, sep) ==
    IF a = <<>> THEN <<>>
    ELSE IF Len(a) = 1 THEN Dumps(a[1], sep)
    ELSE Dumps(a[1], sep) \o <<",">> \o sep \o DumpsElements(Tail(a), sep)
DumpsMembers(m, sep) ==
    IF m = <<>> THEN <<>>
    ELSE LET one == <<Quote>> \o EscapeText(m[1][1]) \o <<Quote, ":">> \o sep
                    \o Dumps(m[1][2], sep)
         IN  IF Len(m) = 1 THEN one
             ELSE one \o <<",">> \o sep \o DumpsMembers(Tail(m), sep)

Separators == {<<>>, <<Space>>, <<CR, LF>>}

\* string values that try the scanner: braces, quotes, backslashes, a line
\* separator
StringAtoms ==
    { <<"a">>, <<LBrace>>, <<RBrace>>, <<LBrace, "x", RBrace>>, <<RBrace, LBrace>>,
      <<Quote>>, <<Backslash>>, <<Backslash, Quote>>, <<Quote, RBrace>>,
      <<"a", LineSep, "a">> }

\* objects with no `cards` list
PlainObjects ==
    { JObj(<<>>), JObj(<< <<<<"a">>, JObj(<<>>)>> >>),
      JObj(<< <<<<"a">>, JNum(5)>>, <<<<"b">>, JNum(0)>> >>),
      JObj(<< <<<<LBrace>>, JStr(<<RBrace>>)>> >>) }
    \cup { JObj(<< <<<<"a">>, JStr(s)>> >>) : s \in StringAtoms }
    \cup { JObj(<< <<KeyCards, v>> >>) :
             v \in {JNull, JNum(5), JStr(<<"q">>), JArr(<<>>), JObj(<<>>),
                    JObj(<< <<KeyQuestion, JStr(<<"q">>)>>, <<KeyAnswer, JStr(<<"a">>)>> >>)} }

\* decoded values that are no object
NonObjects ==
    { JNull, JBool(TRUE), JNum(0), JNum(5), JStr(<<"q">>), JStr(<<>>), JArr(<<>>),
      JArr(<<JNum(5)>>), JArr(<<JStr(<<"q">>)>>) }

\* the entries of a `cards` list
Card(q, a) == JObj(<< <<KeyQuestion, q>>, <<KeyAnswer, a>> >>)
Entries ==
    { Card(JStr(<<"q">>), JStr(<<"a">>)),
      Card(JStr(<<Space, "q", Space>>), JStr(<<"a", LF>>)),
      Card(JStr(<<LBrace, "x", RBrace>>), JStr(<<"y">>)),
      Card(JNum(5), JStr(<<"a">>)),
      Card(JNum(0), JStr(<<"a">>)),
      Card(JNull, JStr(<<"a">>)),
      Card(JStr(<<"q">>), JBool(TRUE)),
      Card(JStr(<<>>), JStr(<<"a">>)),
      Card(JStr(<<"q">>), JStr(<<Space>>)),
      JObj(<< <<KeyQuestion, JStr(<<"q">>)>> >>),
      JObj(<< <<KeyAnswer, JStr(<<"a">>)>> >>),
      JNum(5),
      JStr(<<"q">>) }

\* every list of at most MaxEntries entries, and one answer that carries more
\* valid cards than any max_cards asked for, around an entry with no answer
OvershootList ==
    << Card(JStr(<<"q">>), JStr(<<"a">>)),
       JObj(<< <<KeyQuestion, JStr(<<"q">>)>> >>),
       Card(JStr(<<"x">>), JStr(<<"y">>)) >>
CardLists == UNION {[1..k -> Entries] : k \in 1..MaxEntries} \cup {OvershootList}
CardObjects == { JObj(<< <<KeyCards, JArr(l)>> >>) : l \in CardLists }

\* a response cut off by the token limit: every proper prefix of one
TruncatedTexts ==
    LET full == Dumps(JObj(<< <<KeyCards, JArr(<<Card(JStr(<<"a">>), JStr(<<RBrace, "b">>))>>)>> >>),
                      <<>>)
    IN  { SubSeq(full, 1, k) : k \in 1..(Len(full) - 1) }

\* how a provider dresses the text: fences with and without a closing line,
\* prose and whitespace around it
Wrappers == {"none", "fence", "fence_json", "fence_json_open", "fence_open", "prose", "space"}
FenceWrappers == {"fence", "fence_json", "fence_json_open", "fence_open"}
Wrap(w, inner) ==
    CASE w = "none"            -> inner
      [] w = "fence"           -> FenceMarker \o <<LF>> \o inner \o <<LF>> \o FenceMarker
      [] w = "fence_json"      -> FenceMarker \o <<"j", "s", "o", "n", LF>> \o inner
                                  \o <<LF>> \o FenceMarker \o <<LF>>
      [] w = "fence_json_open" -> FenceMarker \o <<"j", "s", "o", "n", LF>> \o inner
      [] w = "fence_open"      -> FenceMarker \o <<LF>> \o inner
      [] w = "prose"           -> <<"a", Space>> \o inner \o <<Space, "a">>
      [] w = "space"           -> <<Space>> \o inner \o <<LF>>

\* the bodies every wrapper is tried on, and those tried bare and fenced only
WrappedBodies ==
    FreeTexts
    \cup { Dumps(v, sep) : v \in PlainObjects \cup NonObjects, sep \in Separators }
    \cup TruncatedTexts
CardBodies == { Dumps(v, sep) : v \in CardObjects, sep \in {<<>>, <<CR, LF>>} }

(***************************************************************************)
(* The extraction and parsing pipeline applied to one response text        *)
(***************************************************************************)
\* nothing called yet outside the function under study
RestIdle ==
    /\ url = <<>>
    /\ raw = <<>>
    /\ env = <<>>
    /\ posts = <<>>
    /\ resp = <<>>
    /\ outcome = <<>>
    /\ col = <<>>
    /\ runs = <<>>

NoResult == [raised |-> FALSE, site |-> "pending", value |-> <<>>]
NoParse  == [returned |-> FALSE, exc |-> "pending", msg |-> "pending", cards |-> <<>>]
\* the configuration of a default install, as far as the parser's callers read it (line 99)
NoConfig == [max_cards |-> 5]

InitText ==
    /\ pc = "start"
    /\ \/ /\ wrapper \in Wrappers
          /\ body \in WrappedBodies
          /\ config = NoConfig
       \/ /\ wrapper \in {"none", "fence_json", "fence_open"}
          /\ body \in CardBodies
          /\ config = NoConfig
       \/ /\ wrapper = "none"
          /\ body \in CardBodies
          /\ config = [max_cards |-> 1]
    /\ content = Wrap(wrapper, body)
    /\ extracted = NoResult
    /\ reextracted = NoResult
    /\ parsed = NoParse
    /\ settings = <<>>
    /\ RestIdle

\* _extract_json_from_text(content)
Extract ==
    /\ pc = "start"
    /\ extracted' = ExtractJsonFromText(content)
    /\ pc' = "extracted"
    /\ UNCHANGED <<wrapper, body, content, reextracted, parsed, config, settings, rest>>

\* _extract_json_from_text applied to its own result
ExtractAgain ==
    /\ pc = "extracted"
    /\ ~extracted.raised
    /\ reextracted' = ExtractJsonFromText(extracted.value)
    /\ pc' = "reextracted"
    /\ UNCHANGED <<wrapper, body, content, extracted, parsed, config, settings, rest>>

\* _parse_split_cards_from_text(content)
Parse ==
    /\ pc = "start"
    /\ parsed' = ParseSplitCardsFromText(content)
    /\ pc' = "parsed"
    /\ UNCHANGED <<wrapper, body, content, extracted, reextracted, config, settings, rest>>

\* the extractor alone, applied once and then to its own result
NextExtract == Extract \/ ExtractAgain
SpecExtract == InitText /\ [][NextExtract]_vars

\* the parser (which calls the extractor)
NextParse == Parse
SpecParse == InitText /\ [][NextParse]_vars

(***************************************************************************)
(* Provider settings: _get_openai_settings, _get_gemini_settings           *)
(***************************************************************************)
\* the hardcoded defaults of lines 562-564 and 570-572
DefaultOpenAIModel ==
    <<"g", "p", "t", "-", "4", "o", "-", "m", "i", "n", "i">>
DefaultOpenAIKeyEnv ==
    <<"O", "P", "E", "N", "A", "I", "_", "A", "P", "I", "_", "K", "E", "Y">>
DefaultOpenAIBase ==
    <<"h", "t", "t", "p", "s", ":", "/", "/", "a", "p", "i", ".", "o", "p", "e", "n",
      "a", "i", ".", "c", "o", "m", "/", "v", "1", "/", "c", "h", "a", "t", "/", "c",
      "o", "m", "p", "l", "e", "t", "i", "o", "n", "s">>
DefaultGeminiModel ==
    <<"g", "e", "m", "i", "n", "i", "-", "2", ".", "5", "-", "f", "l", "a", "s", "h">>
DefaultGeminiKeyEnv ==
    <<"G", "E", "M", "I", "N", "I", "_", "A", "P", "I", "_", "K", "E", "Y">>
DefaultGeminiBase ==
    <<"h", "t", "t", "p", "s", ":", "/", "/", "g", "e", "n", "e", "r", "a", "t", "i",
      "v", "e", "l", "a", "n", "g", "u", "a", "g", "e", ".", "g", "o", "o", "g", "l",
      "e", "a", "p", "i", "s", ".", "c", "o", "m", "/", "v", "1", "b", "e", "t", "a">>

\* config.get(key): the value, None when the key is absent
ConfigGet(conf, key) == IF key \in DOMAIN conf THEN conf[key] ELSE JNull

\* a or b
Or(a, b) == IF Truthy(a) THEN a ELSE b

\* lines 562-564: str(config.get(canonical) or config.get(legacy) or default)
Resolve_LegacyFirst(conf, canonical, legacy, default) ==
    PyStr(Or(Or(ConfigGet(conf, legacy), ConfigGet(conf, canonical)), JStr(default)))
Resolve(conf, canonical, legacy, default) ==
    PyStr(Or(Or(ConfigGet(conf, canonical), ConfigGet(conf, legacy)), JStr(default)))

\* lines 560-565
GetOpenAISettings(conf) ==
    [model       |-> Resolve(conf, "openai_model", "model", DefaultOpenAIModel),
     api_key_env |-> Resolve(conf, "openai_api_key_env", "api_key_env", DefaultOpenAIKeyEnv),
     api_base    |-> Resolve(conf, "openai_api_base", "api_base", DefaultOpenAIBase)]

\* lines 568-573
GetGeminiSettings(conf) ==
    [model       |-> Resolve(conf, "gemini_model", "model", DefaultGeminiModel),
     api_key_env |-> Resolve(conf, "gemini_api_key_env", "api_key_env", DefaultGeminiKeyEnv),
     api_base    |-> Resolve(conf, "gemini_api_base", "api_base", DefaultGeminiBase)]

\* the keys the two functions read, and the configurations tried: every key
\* absent, present but empty, or present with a value of its own
CanonicalKeys ==
    {"openai_model", "openai_api_key_env", "openai_api_base",
     "gemini_model", "gemini_api_key_env", "gemini_api_base"}
LegacyKeys == {"model", "api_key_env", "api_base"}
OwnValue ==
    [k \in {"openai_model", "openai_api_key_env", "openai_api_base", "gemini_model",
            "gemini_api_key_env", "gemini_api_base", "model", "api_key_env", "api_base"} |->
        CASE k = "openai_model"       -> <<"o", "m">>
          [] k = "openai_api_key_env" -> <<"O", "K">>
          [] k = "openai_api_base"    -> <<"h", ":", "/", "/", "o">>
          [] k = "gemini_model"       -> <<"g", "m">>
          [] k = "gemini_api_key_env" -> <<"G", "K">>
          [] k = "gemini_api_base"    -> <<"h", ":", "/", "/", "g">>
          [] k = "model"              -> <<"m">>
          [] k = "api_key_env"        -> <<"K">>
          [] k = "api_base"           -> <<"h", ":", "/", "/", "l">>]
SettingsKeys == CanonicalKeys \cup LegacyKeys
Shapes == [SettingsKeys -> {"absent", "empty", "own"}]
ConfigOf(sh) ==
    [k \in {x \in SettingsKeys : sh[x] # "absent"} |->
        IF sh[k] = "empty" THEN JStr(<<>>) ELSE JStr(OwnValue[k])]
Configs == {ConfigOf(sh) : sh \in Shapes}

InitSettings ==
    /\ pc = "start"
    /\ config \in Configs
    /\ settings = <<>>
    /\ wrapper = "none"
    /\ body = <<>>
    /\ content = <<>>
    /\ extracted = NoResult
    /\ reextracted = NoResult
    /\ parsed = NoParse
    /\ RestIdle

\* model, api_key_env, api_base = _get_openai_settings(config)
ResolveOpenAI ==
    /\ pc = "start"
    /\ settings' = GetOpenAISettings(config)
    /\ pc' = "openai"
    /\ UNCHANGED <<wrapper, body, content, extracted, reextracted, parsed, config, rest>>

\* model, api_key_env, api_base = _get_gemini_settings(config)
ResolveGemini ==
    /\ pc = "start"
    /\ settings' = GetGeminiSettings(config)
    /\ pc' = "gemini"
    /\ UNCHANGED <<wrapper, body, content, extracted, reextracted, parsed, config, rest>>

NextSettings == ResolveOpenAI \/ ResolveGemini
SpecSettings == InitSettings /\ [][NextSettings]_vars

(***************************************************************************)
(* Properties of _extract_json_from_text                                   *)
(***************************************************************************)
\* x occurs in t as a run of consecutive characters
IsContiguousIn(x, t) ==
    \E a \in 0..Len(t) : \E b \in a..Len(t) : SubSeq(t, a + 1, b) = x

\* t is one well-formed JSON object and nothing else
IsJsonObjectText(t) ==
    /\ t # <<>>
    /\ t[1] = LBrace
    /\ t[Len(t)] = RBrace
    /\ JsonLoads(t).ok
    /\ JsonLoads(t).val.t = "dict"

\* C1: extraction is total.  Whatever the text (empty, no brace, unbalanced
\* braces, an unterminated string, a lone fence line), it raises nothing and
\* returns the trimmed, fence-stripped text or a run of consecutive characters
\* of it.
C1_ExtractTotal ==
    pc \in {"extracted", "reextracted"} =>
        /\ ~extracted.raised
        /\ IsContiguousIn(extracted.value, Cleaned(content))

\* C1 witness: a fenced, cut-off text whose braces never balance has been
\* extracted to a proper part of the cleaned text.
C1_Witness ==
    /\ pc = "extracted"
    /\ wrapper = "fence_open"
    /\ body = <<"a", LBrace, Quote, RBrace>>
    /\ extracted = Returned("fallback", <<LBrace, Quote, RBrace>>)

\* C2: a single well-formed JSON object with nothing around it, whatever braces,
\* escaped quotes and backslashes its strings hold, is returned whole: the scan
\* counts a brace only outside strings and an escaped quote ends no string.
C2_WholeObjectUnchanged ==
    (pc = "extracted" /\ wrapper = "none" /\ IsJsonObjectText(body)) =>
        extracted = Returned("balanced", body)

\* C2 witness: an object whose string value is an escaped quote followed by a
\* closing brace came back whole.
C2_Witness ==
    /\ pc = "extracted"
    /\ wrapper = "none"
    /\ body = Dumps(JObj(<< <<<<"a">>, JStr(<<Quote, RBrace>>)>> >>), <<>>)
    /\ extracted.value = body

\* C3 (as claimed): an opening fence line, a newline and a balanced JSON object
\* J, with or without a closing fence line after it, extracts to exactly J.
C3_FencedObjectExact ==
    (pc = "extracted" /\ wrapper \in FenceWrappers /\ IsJsonObjectText(body)) =>
        (~extracted.raised /\ extracted.value = body)

\* C4: extraction is idempotent on clean JSON: for a well-formed object with no
\* fence, extracting the extracted text gives the extracted text again.
C4_Idempotent ==
    (pc = "reextracted" /\ wrapper = "none" /\ IsJsonObjectText(body)) =>
        (~reextracted.raised /\ reextracted.value = extracted.value)

\* C4 witness: a nested object with a brace inside a string has been extracted
\* twice.
C4_Witness ==
    /\ pc = "reextracted"
    /\ wrapper = "none"
    /\ body = Dumps(JObj(<< <<<<LBrace>>, JStr(<<RBrace>>)>> >>), <<Space>>)
    /\ reextracted.value = body

\* C5: when the text holds a "{" and the depth never returns to zero, the
\* result runs from the first "{" through the last "}" of the cleaned text if
\* that "}" lies after the "{", and is the cleaned text unchanged otherwise.
C5_TruncatedFallback ==
    (pc = "extracted" /\ extracted.site \in {"fallback", "unchanged"}) =>
        LET t     == Cleaned(content)
            first == CHOOSE i \in 1..Len(t) :
                         t[i] = LBrace /\ \A j \in 1..(i - 1) : t[j] # LBrace
            closes == {i \in 1..Len(t) : t[i] = RBrace}
            last  == IF closes = {} THEN 0
                     ELSE CHOOSE i \in closes : \A j \in closes : j <= i
        IN  /\ \E i \in 1..Len(t) : t[i] = LBrace
            /\ extracted.value = IF last > first THEN SubSeq(t, first, last) ELSE t

\* C5 witness: a cut-off response with a "}" inside the unterminated part came
\* back as the run from its first "{" to its last "}".
C5_Witness ==
    /\ pc = "extracted"
    /\ wrapper = "prose"
    /\ body = <<LBrace, Quote, RBrace, RBrace>>
    /\ extracted = Returned("fallback", body)

(***************************************************************************)
(* Properties of _parse_split_cards_from_text                              *)
(***************************************************************************)
\* t is non-empty and neither starts nor ends with whitespace
IsTrimmedNonEmpty(t) == t # <<>> /\ ~IsSpace(t[1]) /\ ~IsSpace(t[Len(t)])

\* what json.loads makes of the extracted text
Decoded == JsonLoads(ExtractJsonFromText(content).value)

\* the value under key k of a decoded object: the last member named k
HasMember(obj, k) == \E i \in 1..Len(obj.m) : obj.m[i][1] = k
Member(obj, k) ==
    obj.m[CHOOSE i \in 1..Len(obj.m) :
              obj.m[i][1] = k /\ \A j \in (i + 1)..Len(obj.m) : obj.m[j][1] # k][2]

\* the decoded value holds a non-empty list under `cards`
HasCardsList(v) ==
    /\ v.t = "dict"
    /\ HasMember(v, KeyCards)
    /\ Member(v, KeyCards).t = "list"
    /\ Member(v, KeyCards).a # <<>>

\* a field as text: a string as it is, a non-zero number by its digits, true
\* and a non-empty container by their str(), and nothing for a missing, null,
\* zero, false or empty value
TextOf(e, k) ==
    IF ~HasMember(e, k) THEN <<>>
    ELSE LET v == Member(e, k) IN
         CASE v.t = "str"  -> v.s
           [] v.t = "int"  -> IF v.n = 0 THEN <<>> ELSE IntToText(v.n)
           [] v.t = "bool" -> IF v.b THEN <<"T", "r", "u", "e">> ELSE <<>>
           [] v.t = "None" -> <<>>
           [] v.t = "list" -> IF v.a = <<>> THEN <<>> ELSE <<"[", "...", "]">>
           [] v.t = "dict" -> IF v.m = <<>> THEN <<>> ELSE <<"{", "...", "}">>

HasNonBlank(t) == \E i \in 1..Len(t) : ~IsSpace(t[i])

\* an entry that is a mapping whose question and answer are non-empty after
\* trimming
IsValidEntry(e) ==
    /\ e.t = "dict"
    /\ HasNonBlank(TextOf(e, KeyQuestion))
    /\ HasNonBlank(TextOf(e, KeyAnswer))

\* t without its leading and trailing whitespace (t holds a non-blank)
Trimmed(t) ==
    LET keep == {i \in 1..Len(t) : ~IsSpace(t[i])}
        lo   == CHOOSE i \in keep : \A j \in keep : i <= j
        hi   == CHOOSE i \in keep : \A j \in keep : j <= i
    IN  SubSeq(t, lo, hi)

\* the valid entries of a list in their order, as cards
ValidCards(entries) ==
    LET valid == SelectSeq(entries, IsValidEntry)
    IN  [i \in 1..Len(valid) |->
            [question |-> Trimmed(TextOf(valid[i], KeyQuestion)),
             answer   |-> Trimmed(TextOf(valid[i], KeyAnswer))]]

\* C6: whenever the parser returns instead of failing, the list is non-empty
\* and every card's question and answer are non-empty with no leading or
\* trailing whitespace.
C6_ReturnedCardsWellFormed ==
    (pc = "parsed" /\ parsed.returned) =>
        /\ parsed.cards # <<>>
        /\ \A i \in 1..Len(parsed.cards) :
               /\ IsTrimmedNonEmpty(parsed.cards[i].question)
               /\ IsTrimmedNonEmpty(parsed.cards[i].answer)

\* C6 witness: an entry whose question and answer carry surrounding whitespace
\* was returned as a trimmed card.
C6_Witness ==
    /\ pc = "parsed"
    /\ wrapper = "none"
    /\ body = Dumps(JObj(<< <<KeyCards,
                 JArr(<<Card(JStr(<<Space, "q", Space>>), JStr(<<"a", LF>>))>>)>> >>), <<>>)
    /\ parsed = ParseReturned(<<[question |-> <<"q">>, answer |-> <<"a">>]>>)

\* C7 (as claimed): every empty or blank input (the empty string and every
\* whitespace-only string) fails with "Model response was empty.", and is not
\* reported as malformed JSON.
C7_BlankIsEmptyResponse ==
    (pc = "parsed" /\ ~HasNonBlank(content)) =>
        parsed = ParseRaised("RuntimeError", EmptyResponse)

\* C8 (as claimed): the parser returns cards or fails with one of the four
\* classified errors, never anything else; text that does not decode fails as
\* malformed JSON, and every decoded value with no non-empty list under
\* `cards`, an array, number, string or null included, fails as a missing
\* cards field.
C8_ClassifiedOutcomes ==
    pc = "parsed" =>
        /\ \/ parsed.returned
           \/ /\ parsed.exc = "RuntimeError"
              /\ parsed.msg \in {EmptyResponse, MalformedJSON, MissingCardsField, NoValidCards}
        /\ (content # <<>> /\ ~Decoded.ok) =>
               parsed = ParseRaised("RuntimeError", MalformedJSON)
        /\ (content # <<>> /\ Decoded.ok /\ ~HasCardsList(Decoded.val)) =>
               parsed = ParseRaised("RuntimeError", MissingCardsField)

\* C9: on a decoded object with a non-empty `cards` list the parser returns
\* exactly the valid entries, in their order, as trimmed cards: invalid entries
\* are dropped without failing the parse, their valid siblings are kept, and
\* max_cards caps nothing.  (With no valid entry at all there is nothing to
\* return, and the parse fails for want of valid cards.)
C9_ValidSubsequence ==
    (pc = "parsed" /\ content # <<>> /\ Decoded.ok /\ HasCardsList(Decoded.val)) =>
        LET cards == ValidCards(Member(Decoded.val, KeyCards).a)
        IN  IF cards # <<>>
            THEN parsed = ParseReturned(cards)
            ELSE parsed = ParseRaised("RuntimeError", NoValidCards)

\* C9 witness: three entries, the middle one without an answer, came back as
\* the two valid cards in order, more than the max_cards of 1 that was asked.
C9_Witness ==
    /\ pc = "parsed"
    /\ config.max_cards = 1
    /\ body = Dumps(JObj(<< <<KeyCards, JArr(OvershootList)>> >>), <<>>)
    /\ parsed = ParseReturned(<<[question |-> <<"q">>, answer |-> <<"a">>],
                                [question |-> <<"x">>, answer |-> <<"y">>]>>)

(***************************************************************************)
(* Properties of the provider settings                                     *)
(***************************************************************************)
\* the fields of a settings triple with, per provider, the canonical key, the
\* legacy key and the default each is resolved from
SettingsTable ==
    [openai |->
        [model       |-> <<"openai_model", "model", DefaultOpenAIModel>>,
         api_key_env |-> <<"openai_api_key_env", "api_key_env", DefaultOpenAIKeyEnv>>,
         api_base    |-> <<"openai_api_base", "api_base", DefaultOpenAIBase>>],
     gemini |->
        [model       |-> <<"gemini_model", "model", DefaultGeminiModel>>,
         api_key_env |-> <<"gemini_api_key_env", "api_key_env", DefaultGeminiKeyEnv>>,
         api_base    |-> <<"gemini_api_base", "api_base", DefaultGeminiBase>>]]
SettingsFields == {"model", "api_key_env", "api_base"}

\* the value a present key holds
ValueText(k) == config[k].s

\* the key is present, whatever it holds
IsPresent(k) == k \in DOMAIN config

\* the key is present and holds a non-empty string
IsSet(k) == k \in DOMAIN config /\ config[k].s # <<>>

\* C10 (as claimed): per provider and field, the canonical key's value when
\* that key is present, else the legacy key's value when that is present, else
\* the default: the first key present wins, whatever its value.
C10_FirstPresentWins ==
    pc \in {"openai", "gemini"} =>
        \A f \in SettingsFields :
            LET row == SettingsTable[pc][f] IN
            settings[f] = IF IsPresent(row[1]) THEN ValueText(row[1])
                          ELSE IF IsPresent(row[2]) THEN ValueText(row[2])
                          ELSE row[3]

\* C10 (amended): per provider and field, the canonical key's value when that
\* key is present and not empty, else the legacy key's value when that is
\* present and not empty, else the default: the first key that holds a
\* non-empty value wins, and a key present with an empty value counts as
\* absent.
C10_FirstNonEmptyWins ==
    pc \in {"openai", "gemini"} =>
        \A f \in SettingsFields :
            LET row == SettingsTable[pc][f] IN
            settings[f] = IF IsSet(row[1]) THEN config[row[1]].s
                          ELSE IF IsSet(row[2]) THEN config[row[2]].s
                          ELSE row[3]

\* C10 witness: openai_model is present but empty and the legacy model key
\* holds a value; the openai settings resolved the model to the legacy value.
C10_Witness ==
    /\ pc = "openai"
    /\ DOMAIN config = {"openai_model", "model", "gemini_model"}
    /\ config["openai_model"] = JStr(<<>>)
    /\ config["model"] = JStr(OwnValue["model"])
    /\ settings.model = OwnValue["model"]

(***************************************************************************)
(* _build_gemini_generatecontent_url                                       *)
(***************************************************************************)
Placeholder     == <<"{", "m", "o", "d", "e", "l", "}">>
ModelsSegment   == <<"/", "m", "o", "d", "e", "l", "s">>
GenerateContent == <<":", "g", "e", "n", "e", "r", "a", "t", "e", "C", "o", "n", "t", "e", "n", "t">>

\* needle in text
Contains(text, needle) ==
    \E i \in 0..(Len(text) - Len(needle)) : Slice(text, i, i + Len(needle)) = needle

\* text.endswith(suffix)
EndsWith(text, suffix) ==
    /\ Len(suffix) <= Len(text)
    /\ Slice(text, Len(text) - Len(suffix), Len(text)) = suffix

\* the index of the first brace of text at or after i, len(text) when none
NextBrace(text, i) ==
    IF \E j \in i..(Len(text) - 1) : CharAt(text, j) \in {LBrace, RBrace}
    THEN CHOOSE j \in i..(Len(text) - 1) :
             /\ CharAt(text, j) \in {LBrace, RBrace}
             /\ \A k \in i..(j - 1) : CharAt(text, k) \notin {LBrace, RBrace}
    ELSE Len(text)

\* the value of the replacement field `name` under format(model=model): the
\* keyword argument, a positional lookup for the empty name, a KeyError for
\* any other name
FieldValue(name, model) ==
    IF name = <<"m", "o", "d", "e", "l">> THEN Returned("field", model)
    ELSE IF name = <<>> THEN Raised("IndexError")
    ELSE Raised("KeyError")

\* text.format(model=model) from index i on, acc being what is formatted so
\* far: {{ and }} are literal braces, {name} is a replacement field, a brace
\* on its own is a ValueError; the first error met ends the call
RECURSIVE FormatFrom(_, _, _, _)
FormatFrom(text, i, acc, model) ==
    IF i >= Len(text) THEN Returned("format", acc)
    ELSE LET ch == CharAt(text, i) IN
         IF ch = LBrace
         THEN IF i + 1 >= Len(text) THEN Raised("ValueError")
              ELSE IF CharAt(text, i + 1) = LBrace
                   THEN FormatFrom(text, i + 2, Append(acc, LBrace), model)
              ELSE LET j == NextBrace(text, i + 1) IN
                   IF j >= Len(text) \/ CharAt(text, j) = LBrace THEN Raised("ValueError")
                   ELSE LET v == FieldValue(Slice(text, i + 1, j), model) IN
                        IF v.raised THEN v
                        ELSE FormatFrom(text, j + 1, acc \o v.value, model)
         ELSE IF ch = RBrace
         THEN IF i + 1 < Len(text) /\ CharAt(text, i + 1) = RBrace
              THEN FormatFrom(text, i + 2, Append(acc, RBrace), model)
              ELSE Raised("ValueError")
         ELSE FormatFrom(text, i + 1, Append(acc, ch), model)

Format(text, model) == FormatFrom(text, 0, <<>>, model)

\* lines 581-582: one trailing slash is cut
DropSlash(base) ==
    IF EndsWith(base, <<"/">>) THEN Slice(base, 0, Len(base) - 1) ELSE base

\* lines 576-588
BuildGeminiGenerateContentUrl(api_base, model) ==
    LET base == Strip(api_base) IN
    IF Contains(base, Placeholder) THEN Format(base, model)
    ELSE LET cut == DropSlash(base) IN
         IF EndsWith(cut, ModelsSegment)
         THEN Returned("models", cut \o <<"/">> \o model \o GenerateContent)
         ELSE Returned("default", cut \o ModelsSegment \o <<"/">> \o model \o GenerateContent)

\* the bases tried: every run of at most MaxPieces pieces, and the default
MaxPieces == 3
Pieces ==
    { <<"h">>, <<"/">>, <<Space>>, <<LBrace>>, <<RBrace>>, Placeholder, ModelsSegment }
RECURSIVE Concat(_)
Concat(ps) == IF ps = <<>> THEN <<>> ELSE Head(ps) \o Concat(Tail(ps))
UrlBases ==
    { Concat(ps) : ps \in UNION {[1..k -> Pieces] : k \in 0..MaxPieces} }
    \cup { DefaultGeminiBase }
UrlModels == { <<"M">>, <<LBrace, "x", RBrace>> }

InitUrl ==
    /\ pc = "start"
    /\ settings \in [model : UrlModels, api_key_env : {DefaultGeminiKeyEnv}, api_base : UrlBases]
    /\ url = <<>>
    /\ config = NoConfig
    /\ wrapper = "none"
    /\ body = <<>>
    /\ content = <<>>
    /\ extracted = NoResult
    /\ reextracted = NoResult
    /\ parsed = NoParse
    /\ raw = <<>>
    /\ env = <<>>
    /\ posts = <<>>
    /\ resp = <<>>
    /\ outcome = <<>>
    /\ col = <<>>
    /\ runs = <<>>

\* url = _build_gemini_generatecontent_url(api_base, model)   (line 696)
BuildUrl ==
    /\ pc = "start"
    /\ url' = BuildGeminiGenerateContentUrl(settings.api_base, settings.model)
    /\ pc' = "url"
    /\ UNCHANGED <<wrapper, body, content, extracted, reextracted, parsed, config, settings,
                   raw, env, posts, resp, outcome, col, runs>>

NextUrl == BuildUrl
SpecUrl == InitUrl /\ [][NextUrl]_vars

(***************************************************************************)
(* Properties of _build_gemini_generatecontent_url                         *)
(***************************************************************************)
\* text with every occurrence of needle, left to right, replaced by by
RECURSIVE ReplaceAll(_, _, _)
ReplaceAll(text, needle, by) ==
    IF Len(text) < Len(needle) THEN text
    ELSE IF SubSeq(text, 1, Len(needle)) = needle
         THEN by \o ReplaceAll(SubSeq(text, Len(needle) + 1, Len(text)), needle, by)
         ELSE <<Head(text)>> \o ReplaceAll(Tail(text), needle, by)

\* C12: the URL builder has exactly three cases, for every base and model.  A
\* base that contains the placeholder {model} gives the base with the
\* placeholder substituted and nothing appended; otherwise a base that ends in
\* /models once one trailing slash is cut gives base/<model>:generateContent;
\* otherwise the base less one trailing slash gives
\* base/models/<model>:generateContent.  The base is taken trimmed of
\* surrounding whitespace, as the builder takes it.
C12_ThreeCases ==
    pc = "url" =>
        LET base == Strip(settings.api_base)
            cut  == IF base # <<>> /\ base[Len(base)] = "/"
                    THEN SubSeq(base, 1, Len(base) - 1) ELSE base
            tail == <<"/">> \o settings.model \o GenerateContent
        IN  /\ ~url.raised
            /\ url.value =
                 IF Contains(base, Placeholder)
                 THEN ReplaceAll(base, Placeholder, settings.model)
                 ELSE IF Len(cut) >= 7 /\ SubSeq(cut, Len(cut) - 6, Len(cut)) = ModelsSegment
                      THEN cut \o tail
                      ELSE cut \o ModelsSegment \o tail

(***************************************************************************)
(* get_config and _resolve_conf_value                                      *)
(***************************************************************************)
\* a float of the configuration, in tenths
JFloat(tenths) == [t |-> "float", tenths |-> tenths]

Text(str) ==
    CASE str = "Front"   -> <<"F", "r", "o", "n", "t">>
      [] str = "Back"    -> <<"B", "a", "c", "k">>
      [] str = "English" -> <<"E", "n", "g", "l", "i", "s", "h">>
      [] str = "openai"  -> <<"o", "p", "e", "n", "a", "i">>
      [] str = "SplitFromLong" ->
             <<"S", "p", "l", "i", "t", "F", "r", "o", "m", "L", "o", "n", "g">>
      [] str = "LongAnswerSplitSource" ->
             <<"L", "o", "n", "g", "A", "n", "s", "w", "e", "r", "S", "p", "l", "i", "t",
               "S", "o", "u", "r", "c", "e">>

\* _CONFIG_ITEMS (lines 93-118): canonical key, numbered key, default, legacy keys
ConfigItems ==
    << [canonical |-> "question_field", numbered |-> "01_question_field",
        default |-> JStr(Text("Front")), legacy |-> <<>>],
       [canonical |-> "answer_field", numbered |-> "02_answer_field",
        default |-> JStr(Text("Back")), legacy |-> <<>>],
       [canonical |-> "max_answer_chars", numbered |-> "03_max_answer_chars",
        default |-> JNum(220), legacy |-> <<>>],
       [canonical |-> "output_language", numbered |-> "04_output_language",
        default |-> JStr(Text("English")), legacy |-> <<>>],
       [canonical |-> "max_cards", numbered |-> "05_max_cards",
        default |-> JNum(5), legacy |-> <<>>],
       [canonical |-> "provider", numbered |-> "06_provider",
        default |-> JStr(Text("openai")), legacy |-> <<>>],
       [canonical |-> "openai_model", numbered |-> "07_openai_model",
        default |-> JStr(DefaultOpenAIModel), legacy |-> <<"model">>],
       [canonical |-> "openai_api_key_env", numbered |-> "08_openai_api_key_env",
        default |-> JStr(DefaultOpenAIKeyEnv), legacy |-> <<"api_key_env">>],
       [canonical |-> "openai_api_base", numbered |-> "09_openai_api_base",
        default |-> JStr(DefaultOpenAIBase), legacy |-> <<"api_base">>],
       [canonical |-> "gemini_model", numbered |-> "10_gemini_model",
        default |-> JStr(DefaultGeminiModel), legacy |-> <<"model">>],
       [canonical |-> "gemini_api_key_env", numbered |-> "11_gemini_api_key_env",
        default |-> JStr(DefaultGeminiKeyEnv), legacy |-> <<"api_key_env">>],
       [canonical |-> "gemini_api_base", numbered |-> "12_gemini_api_base",
        default |-> JStr(DefaultGeminiBase), legacy |-> <<"api_base">>],
       [canonical |-> "temperature", numbered |-> "13_temperature",
        default |-> JFloat(2), legacy |-> <<>>],
       [canonical |-> "max_output_tokens", numbered |-> "14_max_output_tokens",
        default |-> JNum(500), legacy |-> <<>>],
       [canonical |-> "tag_for_new", numbered |-> "15_tag_for_new",
        default |-> JStr(Text("SplitFromLong")), legacy |-> <<>>],
       [canonical |-> "tag_for_original", numbered |-> "16_tag_for_original",
        default |-> JStr(Text("LongAnswerSplitSource")), legacy |-> <<>>] >>

\* lines 392-395: the value of the first legacy key present, else the default
RECURSIVE FirstLegacy(_, _, _)
FirstLegacy(rawConf, legacy_keys, default_value) ==
    IF legacy_keys = <<>> THEN default_value
    ELSE IF Head(legacy_keys) \in DOMAIN rawConf THEN rawConf[Head(legacy_keys)]
    ELSE FirstLegacy(rawConf, Tail(legacy_keys), default_value)

\* _resolve_conf_value (lines 381-395)
ResolveConfValue_CanonicalFirst(rawConf, item) ==
    IF item.canonical \in DOMAIN rawConf THEN rawConf[item.canonical]
    ELSE IF item.numbered \in DOMAIN rawConf THEN rawConf[item.numbered]
    ELSE FirstLegacy(rawConf, item.legacy, item.default)
ResolveConfValue(rawConf, item) ==
    IF item.numbered \in DOMAIN rawConf THEN rawConf[item.numbered]
    ELSE IF item.canonical \in DOMAIN rawConf THEN rawConf[item.canonical]
    ELSE FirstLegacy(rawConf, item.legacy, item.default)

\* merged[key] = value
SetItem(mapping, key, value) ==
    [k \in DOMAIN mapping \cup {key} |-> IF k = key THEN value ELSE mapping[k]]

\* lines 411-412: the loop over _CONFIG_ITEMS from item i on
RECURSIVE MergeItems(_, _, _)
MergeItems(merged, rawConf, i) ==
    IF i > Len(ConfigItems) THEN merged
    ELSE MergeItems(SetItem(merged, ConfigItems[i].canonical,
                            ResolveConfValue(rawConf, ConfigItems[i])),
                    rawConf, i + 1)

\* get_config (lines 398-414); got is what the add-on manager returns, a
\* mapping or None
GetConfigFrom(got) ==
    LET rawConf == IF got = JNull THEN <<>> ELSE got   \* getConfig(...) or {}
    IN  MergeItems(rawConf, rawConf, 1)

\* the raw mappings tried: around each item of the table, its numbered, its
\* canonical and its legacy keys and a key the table does not know, each
\* absent, present with an empty value, or present with a value of its own;
\* and the None of an add-on without configuration
SeqRange(seq) == {seq[i] : i \in 1..Len(seq)}
ItemKeys(item) == {item.numbered, item.canonical} \cup SeqRange(item.legacy)
UnknownKey == "custom_note"
RawValue(item, k) ==
    IF k = item.numbered THEN JStr(<<"n">>)
    ELSE IF k = item.canonical THEN JStr(<<"c">>)
    ELSE IF k = UnknownKey THEN JStr(<<"u">>)
    ELSE JStr(<<"l">>)
RawOf(item, sh) ==
    [k \in {x \in DOMAIN sh : sh[x] # "absent"} |->
        IF sh[k] = "empty" THEN JStr(<<>>) ELSE RawValue(item, k)]
RawConfigs ==
    UNION { { RawOf(ConfigItems[i], sh) :
                sh \in [ItemKeys(ConfigItems[i]) \cup {UnknownKey} -> {"absent", "empty", "own"}] } :
            i \in 1..Len(ConfigItems) }
    \cup {JNull}

InitConfig ==
    /\ pc = "start"
    /\ raw \in RawConfigs
    /\ config = <<>>
    /\ settings = <<>>
    /\ wrapper = "none"
    /\ body = <<>>
    /\ content = <<>>
    /\ extracted = NoResult
    /\ reextracted = NoResult
    /\ parsed = NoParse
    /\ url = <<>>
    /\ env = <<>>
    /\ posts = <<>>
    /\ resp = <<>>
    /\ outcome = <<>>
    /\ col = <<>>
    /\ runs = <<>>

\* config = get_config()   (lines 785, 931)
GetConfig ==
    /\ pc = "start"
    /\ config' = GetConfigFrom(raw)
    /\ pc' = "config"
    /\ UNCHANGED <<wrapper, body, content, extracted, reextracted, parsed, settings,
                   url, raw, env, posts, resp, outcome, col, runs>>

NextConfig == GetConfig
SpecConfig == InitConfig /\ [][NextConfig]_vars

(***************************************************************************)
(* Properties of get_config                                                *)
(***************************************************************************)
\* the keys the table names, and the raw mapping with None read as empty
TableKeys == UNION {ItemKeys(ConfigItems[i]) : i \in 1..Len(ConfigItems)}
RawMapping == IF raw = JNull THEN <<>> ELSE raw

\* C19: for every raw mapping and every item of the table, the mapping
\* get_config returns holds the canonical key, with the numbered key's value
\* when the raw mapping has that key, else the raw canonical key's value, else
\* the value of the first legacy key present, else the default; and every raw
\* key the table does not name is passed through with its value.
C19_CanonicalResolved ==
    pc = "config" =>
        /\ \A i \in 1..Len(ConfigItems) :
             LET item    == ConfigItems[i]
                 present == {j \in 1..Len(item.legacy) : item.legacy[j] \in DOMAIN RawMapping}
             IN  /\ item.canonical \in DOMAIN config
                 /\ config[item.canonical] =
                      IF item.numbered \in DOMAIN RawMapping THEN RawMapping[item.numbered]
                      ELSE IF item.canonical \in DOMAIN RawMapping THEN RawMapping[item.canonical]
                      ELSE IF present # {}
                           THEN RawMapping[item.legacy[CHOOSE j \in present :
                                                         \A k \in present : j <= k]]
                      ELSE item.default
        /\ \A k \in DOMAIN RawMapping \ TableKeys :
             k \in DOMAIN config /\ config[k] = RawMapping[k]

\* C19 witness: the raw mapping holds an empty 07_openai_model next to
\* openai_model, model and an unknown key; the canonical openai_model came
\* back with the numbered key's empty value, gemini_model with the legacy
\* value, and the unknown key as it was.
C19_Witness ==
    /\ pc = "config"
    /\ DOMAIN raw = {"07_openai_model", "openai_model", "model", UnknownKey}
    /\ raw["07_openai_model"] = JStr(<<>>)
    /\ raw["openai_model"] = JStr(<<"c">>)
    /\ config["openai_model"] = JStr(<<>>)
    /\ config["gemini_model"] = raw["model"]
    /\ config[UnknownKey] = raw[UnknownKey]
    /\ config["max_cards"] = JNum(5)

(***************************************************************************)
(* Python object protocol, as the provider calls use it                    *)
(***************************************************************************)
\* str.lower() on the characters of the model
LowerChar(ch) ==
    CASE ch = "G" -> "g"
      [] ch = "O" -> "o"
      [] OTHER    -> ch
Lower(text) == [i \in 1..Len(text) |-> LowerChar(text[i])]

\* v[key] for a str key: the value of a dict's key, KeyError when the dict has
\* none, TypeError on anything that is no dict
HasKey(items, key) == \E i \in 1..Len(items) : items[i][1] = key
GetItemKey(v, key) ==
    IF v.t = "dict"
    THEN IF HasKey(v.m, key) THEN Returned("item", DictGet(v.m, key)) ELSE Raised("KeyError")
    ELSE Raised("TypeError")

\* v[0]: the first element of a list, the first character of a str,
\* IndexError when empty, KeyError on a dict, TypeError on a scalar
GetItemFirst(v) ==
    CASE v.t = "list" -> IF v.a = <<>> THEN Raised("IndexError") ELSE Returned("item", v.a[1])
      [] v.t = "str"  -> IF v.s = <<>> THEN Raised("IndexError")
                         ELSE Returned("item", JStr(<<v.s[1]>>))
      [] v.t = "dict" -> Raised("KeyError")
      [] OTHER        -> Raised("TypeError")

\* v.get(key): a dict's value or None, AttributeError on anything that is no dict
Get(v, key) ==
    IF v.t = "dict" THEN Returned("get", DictGet(v.m, key)) ELSE Raised("AttributeError")

\* the members `for p in v` visits: the elements of a list, the keys of a
\* dict, the characters of a str; TypeError on a scalar
Iterate(v) ==
    CASE v.t = "list" -> Returned("iter", v.a)
      [] v.t = "dict" -> Returned("iter", [i \in 1..Len(v.m) |-> JStr(v.m[i][1])])
      [] v.t = "str"  -> Returned("iter", [i \in 1..Len(v.s) |-> JStr(<<v.s[i]>>)])
      [] OTHER        -> Raised("TypeError")

(***************************************************************************)
(* Credentials, provider choice and transport                              *)
(***************************************************************************)
\* what a provider call ends with: cards, or an exception with its message
MissingCredential == "API key is missing. Please set environment variable"
NetworkError      == "Network error (Qt)"
OpenAIEnvelope    == "Failed to parse OpenAI response JSON"
GeminiEnvelope    == "Failed to parse Gemini response JSON"
GeminiShape       == "Failed to extract text from Gemini response"

\* line 551: the message names the variable
MissingKey(env_name) ==
    [returned |-> FALSE, exc |-> "RuntimeError", msg |-> MissingCredential,
     cards |-> <<>>, env_name |-> env_name]

\* os.environ.get(env_name, "").strip()   (line 549)
EnvKey(environ, env_name) ==
    Strip(IF env_name \in DOMAIN environ THEN environ[env_name] ELSE <<>>)

\* _get_env_key (lines 548-552): the key, or the failure
GetEnvKey_Unstripped(environ, env_name) ==
    IF env_name \notin DOMAIN environ \/ environ[env_name] = <<>>
    THEN MissingKey(env_name)
    ELSE [returned |-> TRUE, key |-> environ[env_name]]
GetEnvKey(environ, env_name) ==
    IF EnvKey(environ, env_name) = <<>> THEN MissingKey(env_name)
    ELSE [returned |-> TRUE, key |-> EnvKey(environ, env_name)]

\* _provider (lines 555-557)
KeyProvider == "provider"
Provider(conf) ==
    LET given == IF KeyProvider \in DOMAIN conf THEN conf[KeyProvider] ELSE JStr(Text("openai"))
        p     == Lower(Strip(PyStr(Or(given, JStr(Text("openai"))))))
    IN  IF p = <<"g", "e", "m", "i", "n", "i">> THEN "gemini" ELSE "openai"

\* what the Qt branch of _post_json ends with (lines 527-533) on a reply
\* with the given error flag and body
PostJson(reply) ==
    IF reply.error /\ reply.bytes = <<>> THEN ParseRaised("RuntimeError", NetworkError)
    ELSE [returned |-> TRUE, bytes |-> reply.bytes]

(***************************************************************************)
(* call_openai_to_split and call_gemini_to_split, from the reply on        *)
(***************************************************************************)
KeyChoices    == <<"c", "h", "o", "i", "c", "e", "s">>
KeyMessage    == <<"m", "e", "s", "s", "a", "g", "e">>
KeyContent    == <<"c", "o", "n", "t", "e", "n", "t">>
KeyCandidates == <<"c", "a", "n", "d", "i", "d", "a", "t", "e", "s">>
KeyParts      == <<"p", "a", "r", "t", "s">>
KeyText       == <<"t", "e", "x", "t">>
ErrorBodyKey      == <<"e", "r", "r", "o", "r">>

\* a byte no UTF-8 text holds; resp_bytes.decode("utf-8") raises on it
InvalidByte == "0xFF"
DecodeUtf8(bytes) ==
    IF \E i \in 1..Len(bytes) : bytes[i] = InvalidByte THEN Raised("UnicodeDecodeError")
    ELSE Returned("decode", bytes)

\* json.loads(resp_bytes.decode("utf-8"))   (lines 684, 746)
Loaded(d) == IF d.ok THEN Returned("loads", d.val) ELSE Raised("JSONDecodeError")
LoadText(text) == IF text.raised THEN text ELSE Loaded(JsonLoads(text.value))
LoadReply(bytes) == LoadText(DecodeUtf8(bytes))

\* _parse_split_cards_from_text on whatever the envelope holds as content:
\* `not content` (line 592) is true of None and of every empty value, and the
\* strip of line 452 exists on a str only
ParseContent(v) ==
    IF ~Truthy(v) THEN ParseRaised("RuntimeError", EmptyResponse)
    ELSE IF v.t # "str" THEN ParseRaised("AttributeError", "object has no attribute 'strip'")
    ELSE ParseSplitCardsFromText(v.s)

\* resp_data["choices"][0]["message"]["content"]   (line 685)
EnvelopeContent_LastChoice(resp_data) ==
    LET choices == GetItemKey(resp_data, KeyChoices) IN
    IF choices.raised THEN choices
    ELSE IF choices.value.t # "list" \/ choices.value.a = <<>> THEN Raised("IndexError")
    ELSE LET message == GetItemKey(choices.value.a[Len(choices.value.a)], KeyMessage) IN
         IF message.raised THEN message
         ELSE GetItemKey(message.value, KeyContent)
EnvelopeContent(resp_data) ==
    LET choices == GetItemKey(resp_data, KeyChoices) IN
    IF choices.raised THEN choices
    ELSE LET first == GetItemFirst(choices.value) IN
         IF first.raised THEN first
         ELSE LET message == GetItemKey(first.value, KeyMessage) IN
              IF message.raised THEN message
              ELSE GetItemKey(message.value, KeyContent)

\* lines 683-687: the content of the reply, or the failure
OpenAIUnwrapped(c) ==
    IF c.raised THEN ParseRaised("RuntimeError", OpenAIEnvelope)
    ELSE [returned |-> TRUE, content |-> c.value]
OpenAIEnvelopeOf(resp_data) ==
    IF resp_data.raised THEN ParseRaised("RuntimeError", OpenAIEnvelope)
    ELSE OpenAIUnwrapped(EnvelopeContent(resp_data.value))
OpenAIContent(bytes) == OpenAIEnvelopeOf(LoadReply(bytes))

\* line 689: the parser runs on the content, when there is one
OpenAIResult(c) == IF ~c.returned THEN c ELSE ParseContent(c.content)

\* call_openai_to_split from the reply on (lines 683-689)
OpenAIFromReply(bytes) == OpenAIResult(OpenAIContent(bytes))

\* the failures of lines 750-768, each wrapped by line 769
ShapeError(cause) ==
    [returned |-> FALSE, exc |-> "RuntimeError", msg |-> GeminiShape, cards |-> <<>>,
     cause |-> cause]
NoCandidates == "No candidates in response."
NoParts      == "No content.parts in response."
EmptyText    == "Empty text in response parts."

\* lines 760-764: the texts of the parts from part i on, or the exception
\* p.get raises on a part that is no dict
RECURSIVE PartTexts(_, _, _)
PartTexts(parts, i, texts) ==
    IF i > Len(parts) THEN Returned("texts", texts)
    ELSE LET t == Get(parts[i], KeyText) IN
         IF t.raised THEN t
         ELSE IF t.value.t = "str" /\ Strip(t.value.s) # <<>>
              THEN PartTexts(parts, i + 1, Append(texts, t.value.s))
              ELSE PartTexts(parts, i + 1, texts)

\* line 765
ContentText_Untrimmed(texts) == JoinLines(texts)
ContentText(texts) == Strip(JoinLines(texts))

\* lines 751-767: the text of the reply, or the failure
UnwrapGemini(resp_data) ==
    LET got == Get(resp_data, KeyCandidates) IN
    IF got.raised THEN ShapeError(got.site)
    ELSE LET candidates == Or(got.value, JArr(<<>>)) IN
    IF ~Truthy(candidates) THEN ShapeError(NoCandidates)
    ELSE LET first == GetItemFirst(candidates) IN
    IF first.raised THEN ShapeError(first.site)
    ELSE LET c == Get(first.value, KeyContent) IN
    IF c.raised THEN ShapeError(c.site)
    ELSE LET content_obj == Or(c.value, JObj(<<>>))
             p == Get(content_obj, KeyParts) IN
    IF p.raised THEN ShapeError(p.site)
    ELSE LET parts == Or(p.value, JArr(<<>>)) IN
    IF ~Truthy(parts) THEN ShapeError(NoParts)
    ELSE LET members == Iterate(parts) IN
    IF members.raised THEN ShapeError(members.site)
    ELSE LET texts == PartTexts(members.value, 1, <<>>) IN
    IF texts.raised THEN ShapeError(texts.site)
    ELSE IF ContentText(texts.value) = <<>> THEN ShapeError(EmptyText)
    ELSE [returned |-> TRUE, content_text |-> ContentText(texts.value)]

\* lines 745-769: the text of the reply, or the failure
GeminiEnvelopeOf(resp_data) ==
    IF resp_data.raised THEN ParseRaised("RuntimeError", GeminiEnvelope)
    ELSE UnwrapGemini(resp_data.value)
GeminiContent(bytes) == GeminiEnvelopeOf(LoadReply(bytes))

\* line 771: the parser runs on the text, when there is one
GeminiResult(u) == IF ~u.returned THEN u ELSE ParseSplitCardsFromText(u.content_text)

\* call_gemini_to_split from the reply on (lines 745-771)
GeminiFromReply(bytes) == GeminiResult(GeminiContent(bytes))

(***************************************************************************)
(* call_llm_to_split up to the request                                     *)
(***************************************************************************)
\* int(v) and float(v) of a configuration value (lines 630-632, 699-701):
\* TypeError on None, a list or a dict, ValueError on a str that is no number
NumberOf(v) ==
    CASE v.t \in {"int", "float", "bool"} -> Returned("number", v)
      [] v.t = "str" -> IF v.s # <<>> /\ \A i \in 1..Len(v.s) : IsDigit(v.s[i])
                        THEN Returned("number", v) ELSE Raised("ValueError")
      [] OTHER -> Raised("TypeError")

\* config.get(key, default)
ConfigGetOr(conf, key, default) == IF key \in DOMAIN conf THEN conf[key] ELSE default

\* the conversions of the prompt's parameters, in the order of the code: the
\* first that raises ends the call
PromptParameters(conf) ==
    LET max_cards   == NumberOf(ConfigGetOr(conf, "max_cards", JNum(5)))
        temperature == NumberOf(ConfigGetOr(conf, "temperature", JFloat(2)))
        max_tokens  == NumberOf(ConfigGetOr(conf, "max_output_tokens", JNum(500)))
    IN  IF max_cards.raised THEN max_cards
        ELSE IF temperature.raised THEN temperature
        ELSE IF max_tokens.raised THEN max_tokens
        ELSE Returned("prompt", [max_cards |-> max_cards.value,
                                 temperature |-> temperature.value,
                                 max_tokens |-> max_tokens.value])

\* the request handed to _post_json (lines 678-681, 742-745)
Request(provider, to, key, model, parameters) ==
    [provider |-> provider, url |-> to, key |-> key, model |-> model,
     parameters |-> parameters]

\* call_openai_to_split up to _post_json (lines 625-681): the request, or
\* the failure that ends the call before it
OpenAIRequest(conf, environ) ==
    LET s   == GetOpenAISettings(conf)
        key == GetEnvKey(environ, s.api_key_env)
        par == PromptParameters(conf)
    IN  IF ~key.returned THEN key
        ELSE IF par.raised THEN ParseRaised(par.site, "raised while building the prompt")
        ELSE [returned |-> TRUE,
              request |-> Request("openai", s.api_base, key.key, s.model, par.value)]

\* call_gemini_to_split up to _post_json (lines 692-745)
GeminiRequest(conf, environ) ==
    LET s   == GetGeminiSettings(conf)
        key == GetEnvKey(environ, s.api_key_env)
        to  == BuildGeminiGenerateContentUrl(s.api_base, s.model)
        par == PromptParameters(conf)
    IN  IF ~key.returned THEN key
        ELSE IF to.raised THEN ParseRaised(to.site, "raised in _build_gemini_generatecontent_url")
        ELSE IF par.raised THEN ParseRaised(par.site, "raised while building the prompt")
        ELSE [returned |-> TRUE,
              request |-> Request("gemini", to.value, key.key, s.model, par.value)]

\* call_llm_to_split (lines 774-777) up to the request
LLMRequest(conf, environ) ==
    IF Provider(conf) = "gemini" THEN GeminiRequest(conf, environ)
    ELSE OpenAIRequest(conf, environ)

\* the settings the chosen provider's call resolves (lines 626, 693)
LLMSettings(conf) ==
    IF Provider(conf) = "gemini" THEN GetGeminiSettings(conf) ELSE GetOpenAISettings(conf)

\* the call from the content of the reply on, for the provider the request
\* went to
LLMResult(provider, c) ==
    IF provider = "gemini" THEN GeminiResult(c) ELSE OpenAIResult(c)

(***************************************************************************)
(* The replies a provider may send                                         *)
(***************************************************************************)
Reply(kind, error, bytes) == [kind |-> kind, error |-> error, bytes |-> bytes]

\* an OpenAI-shaped envelope around the contents of its choices
Choice(c) == JObj(<< <<KeyMessage, JObj(<< <<KeyContent, c>> >>)>> >>)
Envelope(contents) ==
    JObj(<< <<KeyChoices, JArr([i \in 1..Len(contents) |-> Choice(contents[i])])>> >>)

\* the JSON texts a content string embeds
ContentBodies ==
    { Dumps(JObj(<< <<KeyCards, JArr(l)>> >>), sep) :
        l \in {<<e>> : e \in Entries} \cup {OvershootList}, sep \in {<<>>, <<CR, LF>>} }
    \cup { Dumps(v, <<>>) : v \in PlainObjects \cup NonObjects }
    \cup { Dumps(JStr(<<"a", LBrace, "b", RBrace>>), <<>>) }

\* replies that are no envelope with a content
BrokenOpenAIReplies ==
    { Reply("network", TRUE, <<>>),
      Reply("http_error", TRUE, Dumps(JObj(<< <<ErrorBodyKey, JStr(<<"x">>)>> >>), <<>>)),
      Reply("bytes", FALSE, <<InvalidByte>>),
      Reply("bytes", FALSE, <<>>),
      Reply("bytes", FALSE, <<"o", "o", "p", "s">>) }
    \cup { Reply("shape", FALSE, Dumps(v, <<>>)) :
             v \in { JNull, JArr(<<>>), JObj(<<>>),
                     JObj(<< <<KeyChoices, JNull>> >>),
                     JObj(<< <<KeyChoices, JArr(<<>>)>> >>),
                     JObj(<< <<KeyChoices, JStr(<<"x">>)>> >>),
                     JObj(<< <<KeyChoices, JArr(<<JNum(5)>>)>> >>),
                     JObj(<< <<KeyChoices, JObj(<<>>)>> >>),
                     JObj(<< <<KeyChoices, JArr(<<JObj(<<>>)>>)>> >>),
                     JObj(<< <<KeyChoices, JArr(<<JObj(<< <<KeyMessage, JNull>> >>)>>)>> >>),
                     JObj(<< <<KeyChoices, JArr(<<JObj(<< <<KeyMessage, JObj(<<>>)>> >>)>>)>> >>) } }

\* envelopes whose content is no text of a model
OddContents ==
    { JNull, JNum(0), JNum(5), JBool(TRUE), JStr(<<>>), JStr(<<Space, LF>>),
      JArr(<<>>), JArr(<<JStr(<<"x">>)>>), JObj(<<>>) }
OddOpenAIReplies ==
    { Reply("odd", FALSE, Dumps(Envelope(<<c>>), <<>>)) : c \in OddContents }

\* the envelope around the content Wrap(w, b), alone or followed by a second
\* choice; the envelope itself is serialised with the separator sep
ContentReply(w, b, second, sep) ==
    Reply("content", FALSE,
          Dumps(Envelope(IF second THEN <<JStr(Wrap(w, b)), JStr(<<"n", "o">>)>>
                         ELSE <<JStr(Wrap(w, b))>>), sep))

\* a Gemini-shaped response around the parts of its first candidate
Part(t) == JObj(<< <<KeyText, t>> >>)
Candidate(parts) == JObj(<< <<KeyContent, JObj(<< <<KeyParts, parts>> >>)>> >>)
GeminiResponse(candidates) == JObj(<< <<KeyCandidates, candidates>> >>)

\* the parts tried: whole and split card texts, texts with whitespace around
\* them, blank, non-text and missing texts, parts that are no mapping
MaxParts == 2
GoodText  == Dumps(JObj(<< <<KeyCards, JArr(<<Card(JStr(<<"q">>), JStr(<<"a">>))>>)>> >>), <<>>)
FirstHalf == SubSeq(GoodText, 1, 10)
LastHalf  == SubSeq(GoodText, 11, Len(GoodText))
PartAtoms ==
    { Part(JStr(GoodText)), Part(JStr(FirstHalf)), Part(JStr(LastHalf)),
      Part(JStr(<<Space>> \o GoodText \o <<LF>>)), Part(JStr(<<"n", "o">>)),
      Part(JStr(<<Space, LF>>)), Part(JStr(<<>>)), Part(JNum(5)), Part(JNull),
      JObj(<<>>), JStr(<<"p">>), JNum(5) }
PartLists == UNION {[1..k -> PartAtoms] : k \in 1..MaxParts}

\* responses with parts, alone or followed by a second candidate
PartsReplies ==
    { Reply("parts", FALSE, Dumps(GeminiResponse(JArr(<<Candidate(JArr(l))>>)), <<>>)) :
        l \in PartLists }
    \cup { Reply("parts", FALSE,
                 Dumps(GeminiResponse(JArr(<<Candidate(JArr(<<Part(JStr(GoodText))>>)),
                                            Candidate(JArr(<<Part(JStr(<<"n", "o">>))>>))>>)),
                       <<Space>>)) }

\* responses of every other shape
BrokenGeminiReplies ==
    { Reply("network", TRUE, <<>>),
      Reply("http_error", TRUE, Dumps(JObj(<< <<ErrorBodyKey, JStr(<<"x">>)>> >>), <<>>)),
      Reply("bytes", FALSE, <<InvalidByte>>),
      Reply("bytes", FALSE, <<"o", "o", "p", "s">>) }
    \cup { Reply("shape", FALSE, Dumps(v, <<>>)) :
             v \in { JNull, JArr(<<>>), JNum(5), JObj(<<>>) }
                   \cup { GeminiResponse(c) :
                            c \in { JNull, JArr(<<>>), JObj(<<>>), JStr(<<"x">>), JNum(5),
                                    JObj(<< <<<<"a">>, JNum(5)>> >>),
                                    JArr(<<JNum(5)>>), JArr(<<JStr(<<"x">>)>>),
                                    JArr(<<JObj(<<>>)>>),
                                    JArr(<<JObj(<< <<KeyContent, JNull>> >>)>>),
                                    JArr(<<JObj(<< <<KeyContent, JStr(<<"x">>)>> >>)>>),
                                    JArr(<<JObj(<< <<KeyContent, JArr(<<JNum(5)>>)>> >>)>>),
                                    JArr(<<JObj(<< <<KeyContent, JObj(<<>>)>> >>)>>) } }
                   \cup { GeminiResponse(JArr(<<Candidate(p)>>)) :
                            p \in { JNull, JArr(<<>>), JObj(<<>>), JStr(<<>>), JStr(<<"x">>),
                                    JNum(5), JBool(TRUE),
                                    JObj(<< <<KeyText, JStr(GoodText)>> >>) } } }
GeminiReplies == PartsReplies \cup BrokenGeminiReplies

(***************************************************************************)
(* One provider call: call_llm_to_split(question, answer, config)          *)
(***************************************************************************)
\* the text handed to _parse_split_cards_from_text, when the call got there
Handed(v) == [reached |-> TRUE, value |-> v]
NotHanded == [reached |-> FALSE, value |-> JNull]
NoOutcome == [returned |-> FALSE, exc |-> "pending", msg |-> "pending", cards |-> <<>>]

\* the configurations and environments tried: the provider named in several
\* spellings or not at all, the credential variable left to its default or
\* renamed through the legacy key, a max_cards no int() accepts, a Gemini base
\* the URL builder rejects; every variable unset, blank or set
OwnKeyEnv == <<"K">>
CallShapes ==
    [provider : {"absent", "openai", "Gemini ", "empty"},
     api_key_env : {"absent", "own"},
     max_cards : {"absent", "null"},
     gemini_api_base : {"absent", "brace"}]
CallConfigOf(sh) ==
    LET value == [provider |-> IF sh.provider = "empty" THEN JStr(<<>>)
                               ELSE IF sh.provider = "openai" THEN JStr(Text("openai"))
                               ELSE JStr(<<"G", "e", "m", "i", "n", "i", Space>>),
                  api_key_env |-> JStr(OwnKeyEnv),
                  max_cards |-> JNull,
                  gemini_api_base |-> JStr(Placeholder \o <<LBrace>>)]
    IN  [k \in {x \in DOMAIN sh : sh[x] # "absent"} |-> value[k]]
CallConfigs == {CallConfigOf(sh) : sh \in CallShapes}

EnvNames == {DefaultOpenAIKeyEnv, DefaultGeminiKeyEnv, OwnKeyEnv}
EnvOf(sh) ==
    [n \in {x \in EnvNames : sh[x] # "unset"} |->
        IF sh[n] = "blank" THEN <<Space, Tab>> ELSE <<Space, "s", "k">>]
Environments == {EnvOf(sh) : sh \in [EnvNames -> {"unset", "blank", "set"}]}

\* a default install with every key set, for either provider
PlainConfigs == { <<>>, [provider |-> JStr(<<"g", "e", "m", "i", "n", "i">>)] }
AllSet == EnvOf([n \in EnvNames |-> "set"])

\* the replies tried under every configuration, and the content replies
FewReplies ==
    { Reply("network", TRUE, <<>>),
      Reply("bytes", FALSE, <<"o", "o", "p", "s">>),
      ContentReply("fence_json", GoodText, FALSE, <<>>),
      Reply("parts", FALSE, Dumps(GeminiResponse(JArr(<<Candidate(JArr(<<Part(JStr(GoodText))>>))>>)), <<>>)) }
ContentWrappers == FenceWrappers \cup {"none", "prose"}

\* the reply is the transport's: it is fixed when the call starts and read
\* when _post_json returns
InitCall ==
    /\ pc = "start"
    /\ \/ /\ config \in CallConfigs
          /\ env \in Environments
          /\ resp \in FewReplies
          /\ wrapper = "none"
          /\ body = <<>>
       \/ /\ config \in PlainConfigs
          /\ env = AllSet
          /\ resp \in BrokenOpenAIReplies \cup OddOpenAIReplies \cup GeminiReplies
          /\ wrapper = "none"
          /\ body = <<>>
       \/ /\ config = <<>>
          /\ env = AllSet
          /\ wrapper \in ContentWrappers
          /\ body \in ContentBodies
          /\ \E second \in BOOLEAN, sep \in {<<>>, <<Space>>} :
                resp = ContentReply(wrapper, body, second, sep)
    /\ settings = <<>>
    /\ url = <<>>
    /\ posts = <<>>
    /\ outcome = NoOutcome
    /\ content = NotHanded
    /\ extracted = NoResult
    /\ reextracted = NoResult
    /\ parsed = NoParse
    /\ raw = <<>>
    /\ col = <<>>
    /\ runs = <<>>

\* call_llm_to_split up to the request: the settings and the key are read,
\* the prompt is built and the request is handed to _post_json, or the call
\* ends before with what was raised
CallStart ==
    /\ pc = "start"
    /\ settings' = LLMSettings(config)
    /\ url' = IF Provider(config) = "gemini"
                 /\ GetEnvKey(env, GetGeminiSettings(config).api_key_env).returned
              THEN BuildGeminiGenerateContentUrl(GetGeminiSettings(config).api_base,
                                                 GetGeminiSettings(config).model)
              ELSE url
    /\ LET r == LLMRequest(config, env) IN
       IF r.returned
       THEN /\ posts' = Append(posts, r.request)
            /\ pc' = "waiting"
            /\ outcome' = outcome
       ELSE /\ posts' = posts
            /\ pc' = "failed"
            /\ outcome' = r
    /\ UNCHANGED <<wrapper, body, content, extracted, reextracted, parsed, config,
                   raw, env, resp, col, runs>>

\* what the call does with p, the end of _post_json, and with c, the content
\* of the reply
Finish(provider, p, c) ==
    /\ pc' = "done"
    /\ outcome' = IF ~p.returned THEN p ELSE LLMResult(provider, c)
    /\ content' = IF ~p.returned \/ ~c.returned THEN NotHanded
                  ELSE IF provider = "gemini" THEN Handed(JStr(c.content_text))
                  ELSE Handed(c.content)
    /\ UNCHANGED <<wrapper, body, extracted, reextracted, parsed, config, settings, url,
                   raw, env, posts, resp, col, runs>>

\* the OpenAI reply arrives: lines 681-689
OpenAIReplyArrives ==
    /\ pc = "waiting"
    /\ posts[Len(posts)].provider = "openai"
    /\ Finish("openai", PostJson(resp), OpenAIContent(resp.bytes))

\* the Gemini reply arrives: lines 743-771
GeminiReplyArrives ==
    /\ pc = "waiting"
    /\ posts[Len(posts)].provider = "gemini"
    /\ Finish("gemini", PostJson(resp), GeminiContent(resp.bytes))

NextCall == CallStart \/ OpenAIReplyArrives \/ GeminiReplyArrives
SpecCall == InitCall /\ [][NextCall]_vars

(***************************************************************************)
(* Claims about one provider call                                          *)
(***************************************************************************)
\* the variable is unset or holds nothing but whitespace
IsBlankIn(environ, env_name) ==
    env_name \notin DOMAIN environ
    \/ \A i \in 1..Len(environ[env_name]) : IsSpace(environ[env_name][i])

\* C11: when the configured credential variable is unset or holds only
\* whitespace, the call of either provider fails with the missing-credential
\* error that names that variable, and no request has been posted.
C11_MissingCredentialBeforePost ==
    (pc # "start" /\ IsBlankIn(env, settings.api_key_env))
        => /\ pc = "failed"
           /\ outcome.exc = "RuntimeError"
           /\ outcome.msg = MissingCredential
           /\ outcome.env_name = settings.api_key_env
           /\ posts = <<>>

\* a Gemini call whose variable is set to whitespace only has failed so
C11_Witness ==
    /\ pc = "failed"
    /\ Provider(config) = "gemini"
    /\ settings.api_key_env \in DOMAIN env
    /\ env[settings.api_key_env] # <<>>
    /\ IsBlankIn(env, settings.api_key_env)
    /\ outcome.msg = MissingCredential
    /\ posts = <<>>

\* the decoded structure of the reply, read as the claim reads it: the value
\* under a key of a mapping, the first element of a list, nothing otherwise
Under(v, k) == IF v.t = "dict" /\ HasMember(v, k) THEN Member(v, k) ELSE JNull
FirstOf(v) == IF v.t = "list" /\ v.a # <<>> THEN v.a[1] ELSE JNull
ResponseCandidates(d) == Under(d, KeyCandidates)
ResponseParts(d) == Under(Under(FirstOf(ResponseCandidates(d)), KeyContent), KeyParts)
IsNone(v) == v \in {JNull, JArr(<<>>)}

\* the text fields of the parts, in order, without the missing, non-text and
\* blank ones
HasText(p) ==
    /\ Under(p, KeyText).t = "str"
    /\ \E i \in 1..Len(Under(p, KeyText).s) : ~IsSpace(Under(p, KeyText).s[i])
PartTextsOf(d) ==
    LET parts == IF ResponseParts(d).t = "list" THEN ResponseParts(d).a ELSE <<>>
        kept  == SelectSeq(parts, HasText)
    IN  [i \in 1..Len(kept) |-> Under(kept[i], KeyText).s]
RECURSIVE Joined(_)
Joined(texts) ==
    IF texts = <<>> THEN <<>>
    ELSE IF Len(texts) = 1 THEN texts[1]
    ELSE texts[1] \o <<LF>> \o Joined(Tail(texts))

\* a Gemini call has ended on a reply that decoded to a structure
GeminiDecoded ==
    /\ pc = "done"
    /\ posts[Len(posts)].provider = "gemini"
    /\ PostJson(resp).returned
    /\ ~LoadReply(resp.bytes).raised
ResponseData == LoadReply(resp.bytes).value

\* the failure half of C13: without candidates, without parts or with a
\* concatenated text that is empty after trimming the call fails with the
\* response-shape error, and whenever no text is handed to the parser the
\* call has failed with that error
ShapeFailures ==
    /\ (\/ IsNone(ResponseCandidates(ResponseData))
        \/ IsNone(ResponseParts(ResponseData))
        \/ Strip(Joined(PartTextsOf(ResponseData))) = <<>>)
          => ~content.reached
    /\ ~content.reached
          => /\ ~outcome.returned
             /\ outcome.exc = "RuntimeError"
             /\ outcome.msg = GeminiShape

\* C13 as stated: the text handed to the parser is the newline-joined
\* concatenation, in order, of the text fields of candidates[0].content.parts
\* without the missing, non-text and blank ones; the call fails with the
\* response-shape error, the parser not reached, without candidates, without
\* parts or with an empty text.
C13_JoinedTextHanded ==
    GeminiDecoded
        => /\ content.reached
                => content.value = JStr(Joined(PartTextsOf(ResponseData)))
           /\ ShapeFailures

\* C13 amended: the text handed to the parser is that concatenation with its
\* leading and trailing whitespace trimmed; the failures are as stated.
C13_TrimmedTextHanded ==
    GeminiDecoded
        => /\ content.reached
                => content.value = JStr(Strip(Joined(PartTextsOf(ResponseData))))
           /\ ShapeFailures

\* two parts, one of them skipped, the other with whitespace around its text:
\* the trimmed text was handed to the parser and parsed
C13_Witness ==
    /\ GeminiDecoded
    /\ content.reached
    /\ outcome.returned
    /\ ResponseParts(ResponseData).t = "list"
    /\ Len(ResponseParts(ResponseData).a) = 2
    /\ Len(PartTextsOf(ResponseData)) = 1
    /\ Joined(PartTextsOf(ResponseData)) # Strip(Joined(PartTextsOf(ResponseData)))

\* two texts were joined by a newline
C13_JoinedTwo ==
    GeminiDecoded /\ content.reached /\ Len(PartTextsOf(ResponseData)) = 2

\* no candidates, no parts, an empty text: each has failed the call
C13_Failed ==
    GeminiDecoded /\ ~content.reached /\ outcome.cause = EmptyText

\* an OpenAI call has ended on a valid envelope whose first choice holds the
\* fenced JSON text Wrap(wrapper, body)
FencedContentDone ==
    /\ pc = "done"
    /\ posts[Len(posts)].provider = "openai"
    /\ resp.kind = "content"
    /\ wrapper \in FenceWrappers

\* C14: on a valid OpenAI envelope whose choices[0].message.content is fenced
\* JSON, the call yields the cards, or the failure, that parsing the extracted
\* content string yields.
C14_EndToEnd ==
    FencedContentDone
        => outcome = ParseSplitCardsFromText(ExtractJsonFromText(Wrap(wrapper, body)).value)

\* such a call returned cards from a fenced content with a language tag
C14_Witness ==
    /\ FencedContentDone
    /\ wrapper = "fence_json"
    /\ content = Handed(JStr(Wrap(wrapper, body)))
    /\ outcome.returned
    /\ Len(outcome.cards) >= 1

\* such a call failed as the parser fails on the content
C14_WitnessFailure ==
    /\ FencedContentDone
    /\ content = Handed(JStr(Wrap(wrapper, body)))
    /\ ~outcome.returned
    /\ outcome.msg = NoValidCards

(***************************************************************************)
(* The batch flows: split_long_answers_for_query and                       *)
(* split_selected_notes_in_browser                                         *)
(***************************************************************************)
\* a note of the collection: its tags, the names of its fields, the length of
\* its answer field, and the note it was split from (0 for a note of the user)
Note(tags, fields, answer_len, source) ==
    [tags |-> tags, fields |-> fields, answer_len |-> answer_len, source |-> source]

\* lines 802-808, 942-948; max_answer_chars is an int in every configuration
\* tried, so that int() returns it
QField(conf)   == PyStr(conf["question_field"])
AField(conf)   == PyStr(conf["answer_field"])
MaxLen(conf)   == conf["max_answer_chars"].n
TagNew(conf)   == PyStr(conf["tag_for_new"])
TagOrig(conf)  == PyStr(conf["tag_for_original"])
SkipTags_OriginalOnly(conf) == {TagOrig(conf)}
SkipTags(conf) == {TagNew(conf), TagOrig(conf)}

\* `q_field not in note or a_field not in note`  (lines 819, 858, 958)
LacksFields(note, conf) == ~({QField(conf), AField(conf)} \subseteq note.fields)

\* lines 811-823, 952-961: the notes of note_ids that become targets
IsTarget(c, conf, nid) ==
    /\ nid \in DOMAIN c
    /\ c[nid].tags \cap SkipTags(conf) = {}
    /\ ~LacksFields(c[nid], conf)
    /\ c[nid].answer_len > MaxLen(conf)
RECURSIVE TargetNotes(_, _, _)
TargetNotes(c, conf, note_ids) ==
    IF note_ids = <<>> THEN <<>>
    ELSE IF IsTarget(c, conf, Head(note_ids))
    THEN <<Head(note_ids)>> \o TargetNotes(c, conf, Tail(note_ids))
    ELSE TargetNotes(c, conf, Tail(note_ids))

\* one run of a batch flow: its target list, the number of targets the loop
\* is done with, the notes call_llm_to_split was called for, those it failed
\* for, those that were split with the number of cards returned, the two
\* counters, the note object fetched for the target at hand, and how far the
\* run is: "waiting" inside _post_json, "reported" after the final message,
\* or "returned" before the loop. req is what call_llm_to_split comes to
\* before _post_json under the run's configuration: the request, or the
\* failure of a step before it; the texts of the note are no part of it
Run(kind, targets, status, req) ==
    [kind |-> kind, targets |-> targets, status |-> status, idx |-> 0,
     attempted |-> <<>>, failed |-> <<>>, split |-> <<>>,
     created_count |-> 0, error_count |-> 0, note |-> <<>>, req |-> req]

\* lines 866-871, 1006-1011: the call raised
AfterFailure_Abort(run, nid) ==
    [run EXCEPT !.idx = Len(run.targets), !.failed = Append(@, nid),
                !.error_count = @ + 1, !.note = <<>>]
AfterFailure(run, nid) ==
    [run EXCEPT !.idx = @ + 1, !.failed = Append(@, nid), !.error_count = @ + 1,
                !.note = <<>>]

\* the loop of lines 851-871 and 990-1011 from the target at hand up to the
\* next call that posts its request, or to the final message when no target
\* is left
RECURSIVE RunLoop(_, _, _)
RunLoop(run, c, conf) ==
    IF run.idx >= Len(run.targets) THEN [run EXCEPT !.status = "reported"]
    ELSE LET nid == run.targets[run.idx + 1] IN
         IF nid \notin DOMAIN c
         THEN RunLoop([run EXCEPT !.idx = @ + 1], c, conf)
         ELSE IF LacksFields(c[nid], conf)
         THEN IF run.kind = "query"
              THEN RunLoop([run EXCEPT !.idx = @ + 1], c, conf)
              ELSE RunLoop(AfterFailure(run, nid), c, conf)
         ELSE IF ~run.req.returned
         THEN RunLoop(AfterFailure([run EXCEPT !.attempted = Append(@, nid)], nid),
                      c, conf)
         ELSE [run EXCEPT !.status = "waiting", !.attempted = Append(@, nid),
                          !.note = c[nid]]

\* the request a run that waits has posted
PostOf(id, run) ==
    [run |-> id, nid |-> run.targets[run.idx + 1], provider |-> run.req.request.provider]
PostsAfter_Twice(sent, id, run) ==
    IF run.status = "waiting"
    THEN Append(Append(sent, PostOf(id, run)), PostOf(id, run))
    ELSE sent
PostsAfter(sent, id, run) ==
    IF run.status = "waiting" THEN Append(sent, PostOf(id, run)) ELSE sent

\* lines 877-894, 1017-1034: one new note per card, a copy of the fetched
\* note with the card's answer and the two tags added
NewNote(note, conf, nid, card) ==
    Note(note.tags \cup {TagNew(conf), TagNew(conf) \o <<"_">> \o IntToText(nid)},
         note.fields, Len(card.answer), nid)
AddNotes(c, note, conf, nid, cards) ==
    c \o [i \in 1..Len(cards) |-> NewNote(note, conf, nid, cards[i])]

\* lines 897-900, 1036-1037: the fetched note is flushed with the tag added
TagOriginal_Untagged(c, note, conf, nid) == c
TagOriginal(c, note, conf, nid) ==
    [c EXCEPT ![nid].tags = note.tags \cup {TagOrig(conf)}]

\* lines 873-900, 1013-1037: the call returned cards
AfterSuccess(run, nid, cards) ==
    [run EXCEPT !.idx = @ + 1, !.split = Append(@, [nid |-> nid, cards |-> Len(cards)]),
                !.created_count = @ + Len(cards), !.note = <<>>]
CollectionAfter_TagAlways(c, run, conf, out) ==
    IF out.returned
    THEN TagOriginal(AddNotes(c, run.note, conf, run.targets[run.idx + 1], out.cards),
                     run.note, conf, run.targets[run.idx + 1])
    ELSE TagOriginal(c, run.note, conf, run.targets[run.idx + 1])
CollectionAfter(c, run, conf, out) ==
    IF out.returned
    THEN TagOriginal(AddNotes(c, run.note, conf, run.targets[run.idx + 1], out.cards),
                     run.note, conf, run.targets[run.idx + 1])
    ELSE c
RunAfter(run, out) ==
    IF out.returned THEN AfterSuccess(run, run.targets[run.idx + 1], out.cards)
    ELSE AfterFailure(run, run.targets[run.idx + 1])

\* call_llm_to_split from the reply on
CallOutcome(provider, p, c) == IF ~p.returned THEN p ELSE LLMResult(provider, c)

(***************************************************************************)
(* The batch harness                                                       *)
(***************************************************************************)
\* the number of times an action is triggered
MaxRuns == 2

\* the collections tried: a long note, and a second note that is long, long
\* and already tagged as split, short, or of a note type without the fields
FrontBack == {Text("Front"), Text("Back")}
LongNote  == Note({}, FrontBack, 300, 0)
Collections ==
    { <<LongNote, n>> :
        n \in { LongNote,
                Note({Text("LongAnswerSplitSource")}, FrontBack, 300, 0),
                Note({<<"k">>}, FrontBack, 1, 0),
                Note({}, {<<"T", "e", "x", "t">>}, 300, 0) } }

\* a default install, and one that uses Gemini and splits every answer
BatchRaws ==
    { <<>>,
      [provider |-> JStr(<<"g", "e", "m", "i", "n", "i">>),
       max_answer_chars |-> JNum(0)] }

\* what find_notes and selectedNotes may return
NoteIds(c) == [i \in 1..Len(c) |-> i]
Reversed(seq) == [i \in 1..Len(seq) |-> seq[Len(seq) + 1 - i]]
QueryResults(c) == {<<>>, NoteIds(c)}
Selections(c) == {<<>>, <<1>>, Reversed(NoteIds(c))}

\* the replies tried: no connection, two cards from either provider, a
\* content that is no JSON
TwoCards ==
    Dumps(JObj(<< <<KeyCards, JArr(<<Card(JStr(<<"q">>), JStr(<<"a">>)),
                                    Card(JStr(<<"r">>), JStr(<<"b">>))>>)>> >>), <<>>)
BatchReplies ==
    { Reply("network", TRUE, <<>>),
      Reply("content", FALSE, Dumps(Envelope(<<JStr(TwoCards)>>), <<>>)),
      Reply("content", FALSE, Dumps(Envelope(<<JStr(<<"n", "o">>)>>), <<>>)),
      Reply("parts", FALSE,
            Dumps(GeminiResponse(JArr(<<Candidate(JArr(<<Part(JStr(TwoCards))>>))>>)), <<>>)) }

\* what a call that posted its request ends with on each of these replies
ReplyOutcome(provider, reply) ==
    CallOutcome(provider, PostJson(reply),
                IF provider = "gemini" THEN GeminiContent(reply.bytes)
                ELSE OpenAIContent(reply.bytes))
BatchOutcomes ==
    [provider \in {"openai", "gemini"} |->
        {ReplyOutcome(provider, reply) : reply \in BatchReplies}]

InitBatch ==
    /\ pc = "idle"
    /\ raw \in BatchRaws
    /\ env \in {AllSet, <<>>}
    /\ col \in Collections
    /\ runs = <<>>
    /\ posts = <<>>
    /\ config = <<>>
    /\ resp = <<>>
    /\ outcome = NoOutcome
    /\ settings = <<>>
    /\ url = <<>>
    /\ wrapper = "none"
    /\ body = <<>>
    /\ content = NotHanded
    /\ extracted = NoResult
    /\ reextracted = NoResult
    /\ parsed = NoParse

\* a handler ran up to its return or up to its first wait in _post_json
Started(run, conf) ==
    /\ runs' = Append(runs, run)
    /\ posts' = PostsAfter(posts, Len(runs) + 1, run)
    /\ config' = conf
    /\ UNCHANGED <<pc, wrapper, body, content, extracted, reextracted, parsed, settings,
                   url, raw, env, resp, outcome, col>>

\* the handler from its target list on (lines 825-871, 963-1011)
Begin(kind, targets, proceed, conf, req) ==
    IF targets = <<>> \/ ~proceed THEN Run(kind, targets, "returned", req)
    ELSE RunLoop(Run(kind, targets, "running", req), col, conf)

\* the Tools menu action is triggered (lines 784-871): the handler runs with
\* the main event loop or inside the event loop of a _post_json that waits
SplitLongAnswersForQuery ==
    /\ Len(runs) < MaxRuns
    /\ \E conf \in {GetConfigFrom(raw)} :
         \E req \in {LLMRequest(conf, env)} :
            \E ok \in BOOLEAN, proceed \in BOOLEAN, note_ids \in QueryResults(col) :
               Started(Begin("query",
                             IF ok THEN TargetNotes(col, conf, note_ids) ELSE <<>>,
                             proceed, conf, req),
                       conf)

\* the browser's context-menu action is triggered (lines 930-1011)
SplitSelectedNotesInBrowser ==
    /\ Len(runs) < MaxRuns
    /\ \E conf \in {GetConfigFrom(raw)} :
         \E req \in {LLMRequest(conf, env)} :
            \E proceed \in BOOLEAN, note_ids \in Selections(col) :
               Started(Begin("browser", TargetNotes(col, conf, note_ids), proceed, conf, req),
                       conf)

\* the runs inside _post_json; the one started last is the one whose event
\* loop runs
Waiting == {r \in DOMAIN runs : runs[r].status = "waiting"}
Top == CHOOSE r \in Waiting : \A q \in Waiting : q <= r

\* loop.exec() of the innermost _post_json returns with the reply: the call
\* ends, the note is split or counted as failed, and the loop goes on to the
\* next wait or to the final message (lines 526-533, 683-689, 745-771,
\* 866-912, 1006-1051)
Resumed(top, out) ==
    /\ col' = CollectionAfter(col, runs[top], config, out)
    /\ runs' = [runs EXCEPT ![top] = RunLoop(RunAfter(runs[top], out),
                                              CollectionAfter(col, runs[top], config, out),
                                              config)]
    /\ posts' = PostsAfter(posts, top,
                           RunLoop(RunAfter(runs[top], out),
                                   CollectionAfter(col, runs[top], config, out), config))
    /\ UNCHANGED <<pc, wrapper, body, content, extracted, reextracted, parsed, config,
                   settings, url, raw, env, resp, outcome>>

ReplyArrives ==
    /\ Waiting # {}
    /\ \E out \in BatchOutcomes[runs[Top].req.request.provider] : Resumed(Top, out)

NextBatch == SplitLongAnswersForQuery \/ SplitSelectedNotesInBrowser \/ ReplyArrives
SpecBatch == InitBatch /\ [][NextBatch]_vars

\* the network ends every request and the event loop that waits for it returns
SpecBatchFair == SpecBatch /\ WF_vars(ReplyArrives)

(***************************************************************************)
(* Claims about the batch flows                                            *)
(***************************************************************************)
Range(seq) == {seq[i] : i \in 1..Len(seq)}
IsPrefix(a, b) == Len(a) <= Len(b) /\ a = SubSeq(b, 1, Len(a))
NoRepeats(seq) == \A i, j \in 1..Len(seq) : seq[i] = seq[j] => i = j
SplitNids(run) == {run.split[i].nid : i \in 1..Len(run.split)}

\* the notes a run called the provider for are its targets so far, in list
\* order, each either split or counted as failed, and failed once
AttemptsInOrder(run) ==
    /\ IsPrefix(run.attempted, run.targets)
    /\ NoRepeats(run.failed)
    /\ run.error_count = Cardinality(Range(run.attempted) \ SplitNids(run))
                         - (IF run.status = "waiting" THEN 1 ELSE 0)
    /\ run.status = "reported"
          => /\ run.attempted = run.targets
             /\ Range(run.failed) = Range(run.targets) \ SplitNids(run)
             /\ run.error_count = Len(run.targets) - Len(run.split)

\* how far the r-th run is, "none" before it started
StatusOf(r) == IF r \in DOMAIN runs THEN runs[r].status ELSE "none"

\* C15: whatever calls fail, a run of either batch loop calls the provider for
\* every target note in list order, counts each failed note once in
\* error_count, and reaches its final completion report.
C15_FailureNeverAborts ==
    /\ [](\A r \in DOMAIN runs : AttemptsInOrder(runs[r]))
    /\ \A r \in 1..MaxRuns : (StatusOf(r) = "waiting") ~> (StatusOf(r) = "reported")

\* a browser run whose first target failed went on to split its second and
\* reported one error
C15_Witness ==
    \E r \in DOMAIN runs :
       /\ runs[r].kind = "browser"
       /\ runs[r].status = "reported"
       /\ Len(runs[r].targets) = 2
       /\ runs[r].failed = <<runs[r].targets[1]>>
       /\ runs[r].error_count = 1
       /\ SplitNids(runs[r]) = {runs[r].targets[2]}

\* a query run without a credential failed for both targets and reported
C15_WitnessNoKey ==
    \E r \in DOMAIN runs :
       /\ runs[r].kind = "query"
       /\ runs[r].status = "reported"
       /\ env = <<>>
       /\ runs[r].error_count = 2
       /\ posts = <<>>


\* C16: processing is strictly sequential: at every moment at most one
\* provider request is outstanding, and while _post_json waits for a reply no
\* second batch is started from the Tools menu action or the browser
\* context-menu action.
C16_StrictlySequential ==
    /\ [](Cardinality(Waiting) <= 1)
    /\ [][Waiting # {} => Len(runs') = Len(runs)]_vars


\* the notes split by some run so far, and the notes created from a split
SplitSoFar == UNION {SplitNids(runs[r]) : r \in DOMAIN runs}
Created == {n \in DOMAIN col : col[n].source # 0}

\* a run that starts has no note in its target list that was split or created
\* from a split before
C17_ExcludedFromLaterRuns ==
    [][Len(runs') > Len(runs)
          => Range(runs'[Len(runs')].targets) \cap (SplitSoFar \cup Created) = {}]_vars

\* no request is posted for a note that was split or created from a split
C17_NeverSentAgain ==
    [][\A i \in (Len(posts) + 1)..Len(posts') :
          posts'[i].nid \notin SplitSoFar \cup Created]_vars

\* C17: with unchanged tag configuration, a note that was successfully split
\* and every note created from a split is excluded from the target list of
\* every later run, so neither is ever sent to the provider again.
C17_TaggingPreventsReprocessing == C17_ExcludedFromLaterRuns /\ C17_NeverSentAgain


\* the requests a run posted for a note
PostsFor(r, nid) == {i \in DOMAIN posts : posts[i].run = r /\ posts[i].nid = nid}

\* C18: there is no retry: within one batch run every target note causes at
\* most one provider HTTP request, whether that request succeeds or fails; a
\* note whose call failed is not called for again in the run.
C18_NoRetry ==
    \A r \in DOMAIN runs :
       /\ NoRepeats(runs[r].attempted)
       /\ \A nid \in Range(runs[r].targets) : Cardinality(PostsFor(r, nid)) <= 1
       /\ \A i \in DOMAIN posts : posts[i].run = r => posts[i].nid \in Range(runs[r].attempted)

\* a run whose request for its first target failed has gone on to its second
\* target and reported, with one request posted for each
C18_Witness ==
    \E r \in DOMAIN runs :
       /\ runs[r].status = "reported"
       /\ Len(runs[r].targets) = 2
       /\ runs[r].failed = <<runs[r].targets[1]>>
       /\ Cardinality(PostsFor(r, runs[r].targets[1])) = 1
       /\ Cardinality(PostsFor(r, runs[r].targets[2])) = 1


\* the notes created from note nid
CreatedFrom(c, nid) == {n \in DOMAIN c : c[n].source = nid}

\* the notes a run counted as failed in this step
NewlyFailed(r) ==
    IF r \in DOMAIN runs
    THEN {runs'[r].failed[i] : i \in (Len(runs[r].failed) + 1)..Len(runs'[r].failed)}
    ELSE Range(runs'[r].failed)

\* the run whose call returned cards in this step, and the note they were for
Split(r) == r \in DOMAIN runs /\ Len(runs'[r].split) = Len(runs[r].split) + 1
LastSplit(run) == run.split[Len(run.split)]

\* C20: when the provider call for a note fails, no new note is created from
\* it and the original note is not given tag_for_original: the note is left
\* as it was and is as eligible for a run as before; an original note is given
\* the tag only in the step that has added every card returned for it as a new
\* note.
C20_AllOrNothing ==
    [][LET conf == GetConfigFrom(raw) IN
       /\ \A r \in DOMAIN runs' : \A n \in NewlyFailed(r) :
             /\ col'[n] = col[n]
             /\ CreatedFrom(col', n) = CreatedFrom(col, n)
             /\ IsTarget(col', conf, n) = IsTarget(col, conf, n)
       /\ \A n \in DOMAIN col :
             (TagOrig(conf) \in col'[n].tags /\ TagOrig(conf) \notin col[n].tags)
                => \E r \in DOMAIN runs :
                      /\ Split(r)
                      /\ LastSplit(runs'[r]).nid = n
                      /\ Cardinality(CreatedFrom(col', n))
                            = Cardinality(CreatedFrom(col, n)) + LastSplit(runs'[r]).cards]_vars

\* a run whose call for its first target failed left that note untagged and
\* without new notes, then split its second target into two notes and tagged it
C20_Witness ==
    \E r \in DOMAIN runs :
       /\ runs[r].status = "reported"
       /\ Len(runs[r].targets) = 2
       /\ Len(runs) = 1
       /\ Len(posts) = 2
       /\ runs[r].failed = <<runs[r].targets[1]>>
       /\ col[runs[r].targets[1]].tags = {}
       /\ CreatedFrom(col, runs[r].targets[1]) = {}
       /\ runs[r].split = <<[nid |-> runs[r].targets[2], cards |-> 2]>>
       /\ TagOrig(config) \in col[runs[r].targets[2]].tags
       /\ Cardinality(CreatedFrom(col, runs[r].targets[2])) = 2

\* a later run has a note in its targets whose call failed in the run before
C20_WitnessEligible ==
    /\ Len(runs) = 2
    /\ runs[1].status = "reported"
    /\ runs[1].failed # <<>>
    /\ runs[1].failed[1] \in Range(runs[2].targets)
    /\ Len(posts) > 0
    /\ posts[1].run = 1
    /\ posts[1].nid = runs[1].failed[1]

====
